---- MODULE Spec2Model ----
(***************************************************************************)
(* Migration planning and execution engine of the SFDMU plugin            *)
(* (src/code/sfdmu-plugin/modules/app.ts): Application.initJob and         *)
(* Application.executeJob.                                                 *)
(***************************************************************************)
EXTENDS Integers, Sequences, FiniteSets, TLC

\* ------------------------------------------------------------------ bounds
MaxObjects == 3     \* objects of a compiled script (planner)
MaxRefs == 3        \* reference fields of a compiled script (planner)
MaxTasks == 3       \* tasks of an executed job
MaxFeatures == 1    \* settings of an executed script that differ from the defaults
MaxRows == 2        \* rows of one object in a store

\* ------------------------------------------------------------- name pools
RecordType == "RecordType"
NamePool == <<"A", "AB", "C", "D", "E">>

\* SfdmModels.Enums.OPERATION
Operations == {"Insert", "Update", "Upsert", "Readonly", "Delete"}

\* record identifiers and external-id values of the modelled stores
SrcIds == <<"s1", "s2", "s3">>
TgtIds == <<"t1", "t2", "t3">>
NewIds == <<"n1", "n2", "n3">>
RtIds == <<"r1", "r2", "r3", "r4", "r5">>
ExtVals == <<"x1", "x2", "x3">>
NoMatch == "zz"          \* an external-id value no parent row carries

\* JavaScript values of a record property
Null == "null"           \* the property holds null
Undefined == "undefined" \* the property holds undefined
Absent == "absent"       \* the record has no such property
Empty == ""              \* the property holds the empty string
SrcRef == "srcref"       \* a source-side identifier of a parent row
TgtRef == "tgtref"       \* a target-side identifier already stored in the target

\* ---------------------------------------------------------------- helpers
Range(s) == {s[i] : i \in 1..Len(s)}

\* linq.ts List.IndexOf, 0-based, -1 when absent
IndexOf(s, x) ==
  IF x \in Range(s) THEN (CHOOSE i \in 1..Len(s) : s[i] = x /\ \A j \in 1..(i-1) : s[j] # x) - 1
  ELSE -1

\* linq.ts List.ElementAt, 0-based
ElementAt(s, i) == s[i + 1]

\* linq.ts List.Insert(index, element), 0-based
Insert(s, i, x) == SubSeq(s, 1, i) \o <<x>> \o SubSeq(s, i + 1, Len(s))

\* linq.ts List.Remove(element): removes the first occurrence, if any
Remove(s, x) ==
  IF x \in Range(s)
  THEN LET k == IndexOf(s, x) + 1 IN SubSeq(s, 1, k - 1) \o SubSeq(s, k + 1, Len(s))
  ELSE s

\* linq.ts List.Reverse
Reverse(s) == [i \in 1..Len(s) |-> s[Len(s) + 1 - i]]

VARIABLES
  pc,            \* position of the running method
  objects,       \* script.objects: names in script order
  refMap,        \* ScriptObject.referencedScriptObjectsMap: name -> referenced names
  mdMap,         \* name -> referenced names reached through a master-detail field
  tasks,         \* job.tasks: task names in list order
  updatedTasks,  \* initJob local: the corrected list, built back to front
  seedK,         \* initJob: 1-based position of the forEach over script.objects
  corrI,         \* initJob: the outer index i of the correction pass
  script,        \* script flags and the media types of the two orgs
  operation,     \* ScriptObject.operation, by object name
  deleteOldData, \* ScriptObject.deleteOldData, by object name
  query,         \* per object: has its query a WHERE, a LIMIT; are its row counts within the thresholds
  sourceStore,   \* rows of the source store, by object name
  targetStore,   \* rows of the target store, by object name
  step,          \* executeJob: the step being executed (0..5)
  ti,            \* executeJob: the index i of the task loop of the step
  stage,         \* executeJob steps 2 and 3: which query of the task is outstanding
  sourceRecordSet, \* Task.sourceRecordSet[Main], by object name
  targetRecordSet, \* Task.targetRecordSet[Main], by object name
  allRecords,    \* ScriptObject.allRecords, by object name
  extIdMap,      \* Task.targetRecordSet[ExtIdMap], by object name: <<key, id>> in insertion order
  missingParentRecords, \* csvDataCacheMap[missingParentRecordsErrorsFilePath]
  reportFile,    \* the missing-parent report on disk, or Unwritten
  csvIssues,     \* executeJob step 0: number of rows of csvIssues
  updatedRecords, \* executeJob local of the task being written
  opLog,         \* store operations issued so far: <<step, position of the task, kind, store>>
  writeLog,      \* calls of processTaskDataAsync so far
  outstanding,   \* store operations issued and not yet returned
  error,         \* the error executeJob terminated with, or NoError
  declined,      \* the user has answered a prompt with something other than yes
  files,         \* the CSV files of the source directory, by object name: the rows
  csvDataCacheMap,      \* executeJob step 0: the files read so far, with their rows
  csvFilePathsToUpdate, \* executeJob step 0: the files marked for rewriting
  csvIssueRows,  \* executeJob step 0: the rows of csvIssues
  rewritten,     \* the record files the current run has written
  run,           \* how many times executeJob has been started on the files
  args,          \* initApplication: baseDir exists, sourceUsername, targetUsername, password
  exportJson,    \* the file export.json of the working directory
  password,      \* Application.password
  scriptDoc,     \* Application.script with its objects, objectsMap and orgs
  orgs,          \* Application.orgs: <<key, handle>> in insertion order
  scriptObjectsList, \* initApplication local: the List built from script.objects
  oi             \* initApplication: the index i of the loop over script.objects

plannerVars == <<objects, refMap, mdMap, tasks, updatedTasks, seedK, corrI>>
execVars == <<script, operation, query, deleteOldData, sourceStore, targetStore, step, ti, stage,
              sourceRecordSet, targetRecordSet, allRecords, extIdMap, missingParentRecords,
              reportFile, csvIssues, updatedRecords, opLog, writeLog, outstanding, error,
          declined>>
vars == <<pc, objects, refMap, mdMap, tasks, updatedTasks, seedK, corrI,
          script, operation, query, deleteOldData, sourceStore, targetStore, step, ti, stage,
          sourceRecordSet, targetRecordSet, allRecords, extIdMap, missingParentRecords,
          reportFile, csvIssues, updatedRecords, opLog, writeLog, outstanding, error,
          declined, files, csvDataCacheMap, csvFilePathsToUpdate, csvIssueRows, rewritten, run,
          args, exportJson, password, scriptDoc, orgs, scriptObjectsList, oi>>
compilerVars == <<args, exportJson, password, scriptDoc, orgs, scriptObjectsList, oi>>
reconcilerVars == <<files, csvDataCacheMap, csvFilePathsToUpdate, csvIssueRows, rewritten, run>>

\* the variables of the file reconciliation while it is not looked at
ReconcilerIdle ==
  /\ files = <<>>
  /\ csvDataCacheMap = <<>>
  /\ csvFilePathsToUpdate = {}
  /\ csvIssueRows = <<>>
  /\ rewritten = {}
  /\ run = 0

\* Application.script and the list of its objects before initApplication
NoScript ==
  [loaded |-> FALSE, objects |-> <<>>, objectsMap |-> <<>>, orgs |-> <<>>,
   sourceOrg |-> Empty, targetOrg |-> Empty, sourceMedia |-> "Org", targetMedia |-> "Org"]
NoList == [aliased |-> FALSE, elements |-> <<>>]

\* the Application before initApplication is called
CompilerIdle ==
  /\ args = [baseDir |-> TRUE, sourceUsername |-> Empty, targetUsername |-> Empty, password |-> Empty]
  /\ exportJson = [exists |-> FALSE, objects |-> <<>>, orgs |-> <<>>]
  /\ password = Undefined
  /\ scriptDoc = NoScript
  /\ orgs = <<>>
  /\ scriptObjectsList = NoList
  /\ oi = 0

NoError == "none"
Unwritten == [written |-> FALSE, rows |-> <<>>]   \* the report file before any flush
NoRecords == [defined |-> FALSE, rows |-> <<>>]   \* updatedRecords before the write call has returned

\* the executor's variables while initJob runs
ExecIdle ==
  /\ script = [promptOnUpdateError |-> FALSE, promptOnMissingParentObjects |-> FALSE,
               validateCSVFilesOnly |-> FALSE, encryptDataFiles |-> FALSE,
               sourceMedia |-> "Org", targetMedia |-> "Org"]
  /\ operation = <<>>
  /\ query = <<>>
  /\ deleteOldData = <<>>
  /\ sourceStore = <<>>
  /\ targetStore = <<>>
  /\ step = 0
  /\ ti = 0
  /\ stage = 0
  /\ sourceRecordSet = <<>>
  /\ targetRecordSet = <<>>
  /\ allRecords = <<>>
  /\ extIdMap = <<>>
  /\ missingParentRecords = <<>>
  /\ reportFile = Unwritten
  /\ csvIssues = 0
  /\ updatedRecords = NoRecords
  /\ opLog = <<>>
  /\ writeLog = <<>>
  /\ outstanding = 0
  /\ error = NoError
  /\ declined = FALSE

\* ------------------------------------------------ compiled object lists
\* the first n pool names in script order, one of them possibly RecordType
ObjectLists(n) ==
  LET base == SubSeq(NamePool, 1, n)
  IN {base} \cup {[base EXCEPT ![p] = RecordType] : p \in 1..n}

Pairs(names) == names \X names

RefRelations(names) == {R \in SUBSET Pairs(names) : Cardinality(R) <= MaxRefs}

MapOf(names, R) == [a \in names |-> {b \in names : <<a, b>> \in R}]

\* transitive closure of a relation over names, by repeated squaring
RECURSIVE Closure(_, _)
Closure(R, k) ==
  IF k = 0 THEN R
  ELSE LET R2 == R \cup {<<p[1], q[2]>> : p \in R, q \in {r \in R : TRUE}} IN
       Closure({x \in R2 : \E p \in R, q \in R : \/ x = p
                                                 \/ (p[2] = q[1] /\ x = <<p[1], q[2]>>)}, k - 1)

RelOf(names, m) == {p \in Pairs(names) : p[2] \in m[p[1]]}
NoSelf(R) == {p \in R : p[1] # p[2]}
Acyclic(R) == \A p \in Closure(R, Cardinality(R)) : p[1] # p[2]

\* ------------------------------------------------------- initJob: seed pass
\* SeedIndex with the index of the last task that references the object
SeedIndexLastHit(ts, name, rm) ==
  IF name = RecordType THEN 0
  ELSE IF Len(ts) = 0 THEN 0
  ELSE LET hits == {i \in 0..(Len(ts) - 1) : name \in rm[ElementAt(ts, i)]}
       IN IF hits = {} THEN Len(ts)
          ELSE CHOOSE i \in hits : \A j \in hits : i >= j

\* app.ts 619-639: the index at which the task of `name` is inserted
SeedIndex(ts, name, rm) ==
  IF name = RecordType THEN 0
  ELSE IF Len(ts) = 0 THEN 0
  ELSE LET hits == {i \in 0..(Len(ts) - 1) : name \in rm[ElementAt(ts, i)]}
       IN IF hits = {} THEN Len(ts)
          ELSE CHOOSE i \in hits : \A j \in hits : i <= j

SeedInsert(ts, name, rm) == Insert(ts, SeedIndex(ts, name, rm), name)

\* --------------------------------------------- initJob: correction pass
\* app.ts 653-663: theTaskNext is a master-detail parent of theTaskPrev
IsMasterDetailParent(prev, next, rm, mm) == next \in rm[prev] /\ next \in mm[prev]

\* CorrectInner without updatedTasks.Add(refTask)
RECURSIVE CorrectInnerLoses(_, _, _, _, _, _)
CorrectInnerLoses(ts, upd, i, j, rm, mm) ==
  IF j >= Len(ts) THEN <<ts, upd>>
  ELSE LET prev == ElementAt(ts, i)
           next == ElementAt(ts, j)
       IN IF IsMasterDetailParent(prev, next, rm, mm)
          THEN CorrectInnerLoses(Remove(ts, next), Remove(upd, next), i, j + 1, rm, mm)
          ELSE CorrectInnerLoses(ts, upd, i, j + 1, rm, mm)

\* app.ts 651-674: the inner loop over j, on the live job.tasks list
RECURSIVE CorrectInner(_, _, _, _, _, _)
CorrectInner(ts, upd, i, j, rm, mm) ==
  IF j >= Len(ts) THEN <<ts, upd>>
  ELSE LET prev == ElementAt(ts, i)
           next == ElementAt(ts, j)
       IN IF IsMasterDetailParent(prev, next, rm, mm)
          THEN CorrectInner(Remove(ts, next), Append(Remove(upd, next), next), i, j + 1, rm, mm)
          ELSE CorrectInner(ts, upd, i, j + 1, rm, mm)

\* app.ts 648-675: one iteration of the outer loop
CorrectOuter(ts, upd, i, rm, mm) ==
  CorrectInner(ts, Append(upd, ElementAt(ts, i)), i, i + 1, rm, mm)

\* ---------------------------------------------------------------- actions
InitPlanner ==
  /\ pc = "seed"
  /\ \E n \in 1..MaxObjects :
       \E objs \in ObjectLists(n) :
         \E R \in RefRelations(Range(objs)) :
           \E M \in SUBSET NoSelf(R) :
             /\ Acyclic(M)
             /\ objects = objs
             /\ refMap = MapOf(Range(objs), R)
             /\ mdMap = MapOf(Range(objs), M)
  /\ tasks = <<>>
  /\ updatedTasks = <<>>
  /\ seedK = 1
  /\ corrI = -1
  /\ ExecIdle
  /\ ReconcilerIdle
  /\ CompilerIdle

\* app.ts 607-641: one iteration of script.objects.forEach
InitJobSeed ==
  /\ UNCHANGED <<reconcilerVars, compilerVars>>
  /\ pc = "seed"
  /\ seedK <= Len(objects)
  /\ tasks' = SeedInsert(tasks, objects[seedK], refMap)
  /\ seedK' = seedK + 1
  /\ UNCHANGED <<pc, objects, refMap, mdMap, updatedTasks, corrI, execVars>>

\* app.ts 644-648: updatedTasks starts with the last task
InitJobCorrectBegin ==
  /\ UNCHANGED <<reconcilerVars, compilerVars>>
  /\ pc = "seed"
  /\ seedK > Len(objects)
  /\ updatedTasks' = <<tasks[Len(tasks)]>>
  /\ corrI' = Len(tasks) - 2
  /\ pc' = "correct"
  /\ UNCHANGED <<objects, refMap, mdMap, tasks, seedK, execVars>>

\* app.ts 648-675: one iteration of the outer loop
InitJobCorrect ==
  /\ UNCHANGED <<reconcilerVars, compilerVars>>
  /\ pc = "correct"
  /\ corrI >= 0
  /\ LET r == CorrectOuter(tasks, updatedTasks, corrI, refMap, mdMap)
     IN /\ tasks' = r[1]
        /\ updatedTasks' = r[2]
  /\ corrI' = corrI - 1
  /\ UNCHANGED <<pc, objects, refMap, mdMap, seedK, execVars>>

\* app.ts 677: job.tasks = updatedTasks.Reverse()
InitJobFinish ==
  /\ UNCHANGED <<reconcilerVars, compilerVars>>
  /\ pc = "correct"
  /\ corrI < 0
  /\ tasks' = Reverse(updatedTasks)
  /\ pc' = "planned"
  /\ UNCHANGED <<objects, refMap, mdMap, updatedTasks, seedK, corrI, execVars>>

\* ------------------------------------------------- initJob as a function
RECURSIVE SeedAll(_, _, _, _)
SeedAll(ts, objs, k, rm) ==
  IF k > Len(objs) THEN ts ELSE SeedAll(SeedInsert(ts, objs[k], rm), objs, k + 1, rm)

RECURSIVE CorrectAll(_, _, _, _, _)
CorrectAll(ts, upd, i, rm, mm) ==
  IF i < 0 THEN upd
  ELSE LET r == CorrectOuter(ts, upd, i, rm, mm) IN CorrectAll(r[1], r[2], i - 1, rm, mm)

\* app.ts 607-677: the job order initJob leaves in job.tasks
PlanJob(objs, rm, mm) ==
  LET seeded == SeedAll(<<>>, objs, 1, rm)
  IN Reverse(CorrectAll(seeded, <<seeded[Len(seeded)]>>, Len(seeded) - 2, rm, mm))

\* ------------------------------------------- scripts and stores of a run
\* A run is described by the settings in which it differs from the default
\* run: the first two objects Upsert and the further ones Readonly, live
\* orgs, both prompts on, the first object referencing the third one and
\* RecordType (a "ref" setting adds a missing reference and removes a
\* default one); each object has MaxRows source rows, of which row 1 looks up the external id of row 1 of every
\* parent and the other rows look up a value no parent has; the target
\* holds row 2 of every object.  A setting is <<kind, object, parent, row,
\* value>>.
Flags == {"noPromptOnUpdateError", "noPromptOnMissingParentObjects",
          "validateCSVFilesOnly", "encryptDataFiles", "sourceFile", "targetFile",
          "validateSourceFiles", "validateEncryptedSourceFiles"}

\* one setting for a run that only validates the files of a file source, and
\* one for such a run on encrypted files with a password
ValidatesSourceFiles(F) ==
  <<"flag", "", "", 0, "validateSourceFiles">> \in F
  \/ <<"flag", "", "", 0, "validateEncryptedSourceFiles">> \in F

\* the reference fields of the default run
DefaultRef(t, p) == t = NamePool[1] /\ p \in {NamePool[3], RecordType}

\* the operation of an object of the default run
DefaultOperation(t) == IF t \in {NamePool[1], NamePool[2]} THEN "Upsert" ELSE "Readonly"

DefaultLook(k) == IF k = 1 THEN ExtVals[1] ELSE NoMatch
DefaultInTarget(k) == k = 2

\* the objects whose own settings vary: the first two of the script and
\* RecordType; a further object is a parent to look up, which a setting can
\* turn into an object to upsert
Varied(names) == names \cap {NamePool[1], NamePool[2], RecordType}

Features(names) ==
  {<<"ref", t, p, 0, "">> : t \in names, p \in names}
  \cup {<<"op", t, "", 0, o>> : t \in Varied(names) \ {RecordType}, o \in Operations \ {"Upsert"}}
  \cup {<<"op", t, "", 0, "Upsert">> : t \in names \ Varied(names)}
  \cup {<<"del", t, "", 0, m>> : t \in Varied(names), m \in {"", "nomatch"}}
  \cup {<<"cond", t, "", 0, c>> : t \in Varied(names) \ {RecordType}, c \in {"where", "limit", "midsize"}}
  \cup {<<"flag", "", "", 0, f>> : f \in Flags}
  \cup {<<"tgt", t, "", k, "">> : t \in Varied(names) \ {RecordType}, k \in 1..MaxRows}
  \cup {<<"tgt", RecordType, "", 0, "">> : t \in names \cap {RecordType}}
  \cup {<<"look", t, p, k, v>> : t \in names, p \in names, k \in 1..MaxRows,
                                  v \in {Absent, Empty, "flip"}}

RECURSIVE SetToSeq(_)
SetToSeq(S) == IF S = {} THEN <<>> ELSE LET x == CHOOSE y \in S : TRUE IN <<x>> \o SetToSeq(S \ {x})

\* a choice of at most MaxFeatures settings: indices into the list of
\* settings, 0 for none, in increasing order
Choices(m) == {f \in [1..MaxFeatures -> 0..m] :
                 \A j \in 1..(MaxFeatures - 1) : f[j] = 0 \/ f[j] < f[j + 1]}
Chosen(fs, f) == {fs[f[j]] : j \in {i \in 1..MaxFeatures : f[i] # 0}}

Consistent(F) ==
  /\ \A f, g \in F : (f[1] = g[1] /\ f[1] = "op" /\ f[2] = g[2]) => f = g
  /\ \A f, g \in F : (f[1] = "look" /\ g[1] = "look" /\ f[2] = g[2] /\ f[3] = g[3] /\ f[4] = g[4]) => f = g
  /\ \A f \in F : f[1] = "look" => DefaultRef(f[2], f[3]) # (<<"ref", f[2], f[3], 0, "">> \in F)
  /\ ~(<<"flag", "", "", 0, "sourceFile">> \in F /\ <<"flag", "", "", 0, "targetFile">> \in F)
  /\ ~(ValidatesSourceFiles(F) /\ <<"flag", "", "", 0, "targetFile">> \in F)
  /\ \A f \in F : f[1] = "del" => <<"op", f[2], "", 0, "Delete">> \notin F
  /\ \A f, g \in F : (f[1] = "del" /\ g[1] = "del" /\ f[2] = g[2]) => f = g

RECURSIVE Concat(_)
Concat(ss) == IF ss = <<>> THEN <<>> ELSE Head(ss) \o Concat(Tail(ss))

\* the settings of the runs over the given objects, in a fixed order: kind
\* by kind and object by object
FeatureList(names) ==
  LET S == Features(names)
      keys == SetToSeq({<<f[1], f[2]>> : f \in S})
  IN Concat([i \in 1..Len(keys) |-> SetToSeq({f \in S : <<f[1], f[2]>> = keys[i]})])

FlagOf(F, f) == <<"flag", "", "", 0, f>> \in F

\* app.ts 146, 190-199: the script flags and the media of the two orgs
ScriptOf(F) ==
  [promptOnUpdateError |-> ~FlagOf(F, "noPromptOnUpdateError"),
   promptOnMissingParentObjects |-> ~FlagOf(F, "noPromptOnMissingParentObjects"),
   validateCSVFilesOnly |-> FlagOf(F, "validateCSVFilesOnly") \/ ValidatesSourceFiles(F),
   encryptDataFiles |-> FlagOf(F, "encryptDataFiles") \/ FlagOf(F, "validateEncryptedSourceFiles"),
   sourceMedia |-> IF FlagOf(F, "sourceFile") \/ ValidatesSourceFiles(F) THEN "File" ELSE "Org",
   targetMedia |-> IF FlagOf(F, "targetFile") THEN "File" ELSE "Org"]

\* app.ts 276-277: Delete forces deleteOldData
DeleteOldDataOf(F, t) ==
  (\E f \in F : f[1] = "del" /\ f[2] = t) \/ <<"op", t, "", 0, "Delete">> \in F

\* app.ts 269-286, 456-460: the operation after query parsing
OperationOf(F, t) ==
  IF t = RecordType THEN "Readonly"
  ELSE IF \E f \in F : f[1] = "op" /\ f[2] = t
  THEN (CHOOSE f \in F : f[1] = "op" /\ f[2] = t)[5]
  ELSE IF DeleteOldDataOf(F, t) THEN "Insert" ELSE DefaultOperation(t)

\* the parsed query of an object and the outcome of the record count rule
QueryOf(F, t) ==
  [where |-> <<"cond", t, "", 0, "where">> \in F,
   limit |-> <<"cond", t, "", 0, "limit">> \in F,
   midsize |-> <<"cond", t, "", 0, "midsize">> \in F,
   deleteMatches |-> <<"del", t, "", 0, "nomatch">> \notin F]

RefsOf(F, names) ==
  [t \in names |-> {p \in names : DefaultRef(t, p) # (<<"ref", t, p, 0, "">> \in F)}]

LookOf(F, t, p, k) ==
  IF \E f \in F : f[1] = "look" /\ f[2] = t /\ f[3] = p /\ f[4] = k
  THEN LET v == (CHOOSE f \in F : f[1] = "look" /\ f[2] = t /\ f[3] = p /\ f[4] = k)[5]
       IN IF v # "flip" THEN v
          ELSE IF DefaultLook(k) = NoMatch THEN ExtVals[1] ELSE NoMatch
  ELSE DefaultLook(k)

\* rows of the source store: Id, external id, and per reference field the
\* lookup column (look) and the reference column itself (fld)
SourceRowsOf(F, names, t) ==
  [k \in 1..MaxRows |->
     [Id |-> SrcIds[k], ext |-> ExtVals[k], st |-> "",
      look |-> [p \in RefsOf(F, names)[t] |-> LookOf(F, t, p, k)],
      fld |-> [p \in RefsOf(F, names)[t] |-> SrcRef]]]

RECURSIVE Filter(_, _)
Filter(order, S) ==
  IF order = <<>> THEN <<>>
  ELSE IF order[1] \in S THEN <<order[1]>> \o Filter(Tail(order), S)
  ELSE Filter(Tail(order), S)

\* a row that only the target holds: no source row has its external id.  An
\* "own" setting, which no run chooses by itself, adds it to the target rows
\* of an object
OwnId == "t9"
OwnExt == "x9"

\* rows of the target store; RecordType holds one row per classified type
TargetRowsOf(F, objs, t) ==
  LET names == Range(objs)
      parents == RefsOf(F, names)[t]
  IN IF t = RecordType
     THEN IF <<"tgt", RecordType, "", 0, "">> \in F THEN <<>>
          ELSE LET kids == Filter(objs, {c \in names : RecordType \in RefsOf(F, names)[c]})
               IN [i \in 1..Len(kids) |->
                     [Id |-> RtIds[i], ext |-> ExtVals[1], st |-> kids[i],
                      look |-> [p \in parents |-> ExtVals[1]],
                      fld |-> [p \in parents |-> TgtRef]]]
     ELSE LET ks == Filter([k \in 1..MaxRows |-> k],
                           {k \in 1..MaxRows : DefaultInTarget(k) # (<<"tgt", t, "", k, "">> \in F)})
          IN [i \in 1..Len(ks) |->
                [Id |-> TgtIds[ks[i]], ext |-> ExtVals[ks[i]], st |-> "",
                 look |-> [p \in parents |-> ExtVals[1]],
                 fld |-> [p \in parents |-> TgtRef]]]
             \o (IF <<"own", t, "", 0, "">> \in F
                 THEN <<[Id |-> OwnId, ext |-> OwnExt, st |-> "",
                         look |-> [p \in parents |-> ExtVals[1]],
                         fld |-> [p \in parents |-> TgtRef]]>>
                 ELSE <<>>)

\* the object lists of an executed job: RecordType, when present, was
\* appended to the script (app.ts 320)
ExecObjectLists(n) ==
  LET base == SubSeq(NamePool, 1, n)
  IN {base, [base EXCEPT ![n] = RecordType]}

NextJob == InitJobSeed \/ InitJobCorrectBegin \/ InitJobCorrect \/ InitJobFinish

SpecJob == InitPlanner /\ [][NextJob]_vars

\* ------------------------------------------------------------ executeJob
N == Len(tasks)
\* Task with the loop index counted from the end of job.tasks
TaskFromEnd(i) == ElementAt(tasks, N - 1 - i)
Task(i) == ElementAt(tasks, i)
TaskNames == Range(tasks)
Pos(name) == IndexOf(tasks, name)

\* the state in which executeJob is called: initJob has produced job.tasks
InitExec ==
  /\ pc = "start"
  /\ \E n \in 1..MaxTasks :
       \E objs \in ExecObjectLists(n) :
         \E fs \in {FeatureList(Range(objs))} :
         \E f \in Choices(Len(fs)) :
         \E F \in {Chosen(fs, f)} :
         \E names \in {Range(objs)} :
           /\ Consistent(F)
           /\ objects = objs
           /\ refMap = RefsOf(F, names)
           /\ mdMap = [t \in names |-> {}]
           /\ tasks = PlanJob(objs, RefsOf(F, names), [t \in names |-> {}])
           /\ updatedTasks = Reverse(PlanJob(objs, RefsOf(F, names), [t \in names |-> {}]))
           /\ seedK = n + 1
           /\ script = ScriptOf(F)
           /\ operation = [t \in names |-> OperationOf(F, t)]
           /\ query = [t \in names |-> QueryOf(F, t)]
           /\ deleteOldData = [t \in names |-> DeleteOldDataOf(F, t)]
           /\ sourceStore = [t \in names |-> SourceRowsOf(F, names, t)]
           /\ targetStore = [t \in names |-> TargetRowsOf(F, objs, t)]
           /\ sourceRecordSet = [t \in names |-> <<>>]
           /\ targetRecordSet = [t \in names |-> <<>>]
           /\ allRecords = [t \in names |-> TRUE]
           /\ extIdMap = [t \in names |-> <<>>]
  /\ corrI = -1
  /\ step = 0
  /\ ti = 0
  /\ stage = 0
  /\ missingParentRecords = <<>>
  /\ reportFile = Unwritten
  /\ csvIssues = 0
  /\ updatedRecords = NoRecords
  /\ opLog = <<>>
  /\ writeLog = <<>>
  /\ outstanding = 0
  /\ error = NoError
  /\ declined = FALSE
  /\ ReconcilerIdle
  /\ CompilerIdle

runVars == <<sourceRecordSet, targetRecordSet, allRecords, extIdMap, missingParentRecords,
             reportFile, updatedRecords, writeLog>>
fixedVars == <<objects, refMap, mdMap, tasks, updatedTasks, seedK, corrI, stage,
               script, operation, query, sourceStore>>

\* a store operation is issued: it is outstanding until its return is handled
Issue(kind, store) ==
  /\ opLog' = Append(opLog, <<step', Pos(Task(ti')), kind, store>>)
  /\ outstanding' = outstanding + 1

\* the outstanding operation has returned and the next one is issued at once
Reissue(kind, store) ==
  /\ opLog' = Append(opLog, <<step', Pos(Task(ti')), kind, store>>)
  /\ outstanding' = outstanding

Returned == outstanding' = outstanding - 1 /\ opLog' = opLog
Quiet == outstanding' = outstanding /\ opLog' = opLog

\* executeJob terminates by throwing e
Throw(e) == pc' = "failed" /\ error' = e /\ step' = step /\ ti' = ti

\* Decline throwing the error class of a failed call
DeclineAsRunError == Throw("JobError")

\* app.ts 995-997, 1082-1084, 1545-1547, 1621-1624, 1661-1663, 1772-1775,
\* 1813-1815: the answer was not yes
Decline == Throw("JobAbortedByUser")

\* app.ts 1023-1027: control reaches the loop of step 1
EnterStep1 == pc' = "s1" /\ step' = 1 /\ ti' = N - 1 /\ error' = error

\* app.ts 1008-1010: validate-only returns, otherwise step 1 follows
AfterStep0 ==
  IF script.validateCSVFilesOnly
  THEN pc' = "done" /\ step' = step /\ ti' = ti /\ error' = error
  ELSE EnterStep1

\* app.ts 706-987: step 0 is entered for a readable file source; the files
\* are read, repaired and written back one awaited call after the other
Step0Begin ==
  /\ UNCHANGED <<reconcilerVars, compilerVars>>
  /\ pc = "start"
  /\ UNCHANGED declined
  /\ IF script.sourceMedia = "File" /\ ~script.encryptDataFiles
     THEN /\ pc' = "s0_files" /\ step' = 0 /\ ti' = ti /\ error' = error
          /\ Issue("reconcile", "source")
     ELSE EnterStep1 /\ Quiet
  /\ UNCHANGED <<fixedVars, runVars, deleteOldData, targetStore, csvIssues>>

\* app.ts 972-999: the files and the issues file are written, then the
\* issues decide whether the user is asked
Step0Return ==
  /\ UNCHANGED <<reconcilerVars, compilerVars>>
  /\ pc = "s0_files"
  /\ UNCHANGED declined
  /\ \E issues \in 0..1 :
       /\ csvIssues' = issues
       /\ IF issues > 0 /\ script.promptOnMissingParentObjects
          THEN pc' = "s0_prompt" /\ step' = step /\ ti' = ti /\ error' = error
          ELSE AfterStep0
  /\ Returned
  /\ UNCHANGED <<fixedVars, runVars, deleteOldData, targetStore>>

\* app.ts 993-998
Step0Prompt ==
  /\ UNCHANGED <<reconcilerVars, compilerVars>>
  /\ pc = "s0_prompt"
  /\ \E yes \in BOOLEAN :
     /\ declined' = ~yes
     /\ IF yes THEN AfterStep0 ELSE Decline
  /\ Quiet
  /\ UNCHANGED <<fixedVars, runVars, deleteOldData, targetStore, csvIssues>>

\* Cleared without the assignment
NotCleared(flags, t) == flags

\* app.ts 1036: task.scriptObject.deleteOldData = false
Cleared(flags, t) == [flags EXCEPT ![t] = FALSE]

\* Step1Loop without the test of the operation at app.ts 1031
Step1LoopAll ==
  /\ UNCHANGED <<reconcilerVars, compilerVars>>
  /\ pc = "s1"
  /\ UNCHANGED declined
  /\ IF script.targetMedia # "Org" \/ ti < 0
     THEN /\ pc' = "s2" /\ step' = 2 /\ ti' = 0
          /\ Quiet /\ UNCHANGED deleteOldData
     ELSE IF ~deleteOldData[Task(ti)]
     THEN /\ pc' = "s1" /\ step' = step /\ ti' = ti - 1
          /\ Quiet /\ UNCHANGED deleteOldData
     ELSE /\ deleteOldData' = Cleared(deleteOldData, Task(ti))
          /\ pc' = "s1_query" /\ step' = step /\ ti' = ti
          /\ Issue("query", "target")
  /\ UNCHANGED <<fixedVars, runVars, targetStore, csvIssues, error>>

\* app.ts 1026-1046 and 1096-1114: the head of the loop of step 1
Step1Loop ==
  /\ UNCHANGED <<reconcilerVars, compilerVars>>
  /\ pc = "s1"
  /\ UNCHANGED declined
  /\ IF script.targetMedia # "Org" \/ ti < 0
     THEN /\ pc' = "s2" /\ step' = 2 /\ ti' = 0
          /\ Quiet /\ UNCHANGED deleteOldData
     ELSE IF operation[Task(ti)] = "Readonly" \/ ~deleteOldData[Task(ti)]
     THEN /\ pc' = "s1" /\ step' = step /\ ti' = ti - 1
          /\ Quiet /\ UNCHANGED deleteOldData
     ELSE /\ deleteOldData' = Cleared(deleteOldData, Task(ti))
          /\ pc' = "s1_query" /\ step' = step /\ ti' = ti
          /\ Issue("query", "target")
  /\ UNCHANGED <<fixedVars, runVars, targetStore, csvIssues, error>>

\* app.ts 1041-1047: the rows the delete query of the task returns from the
\* target, those the delete predicate of the script matches
DeleteQueryRecords(t) == IF query[t].deleteMatches THEN targetStore[t] ELSE <<>>

NothingToDeleteNever(queriedRecords) == FALSE
\* app.ts 1052, 1087-1089: queriedRecords.Count() is zero
NothingToDelete(queriedRecords) == Len(queriedRecords) = 0

\* app.ts 1045-1059 and 1088-1090: the delete query has returned
Step1QueryReturn ==
  /\ UNCHANGED <<reconcilerVars, compilerVars>>
  /\ pc = "s1_query"
  /\ UNCHANGED declined
  /\ \E ok \in BOOLEAN :
       IF ~ok THEN Throw("JobError") /\ Returned
       ELSE IF ~NothingToDelete(DeleteQueryRecords(Task(ti)))
       THEN /\ pc' = "s1_delete" /\ step' = step /\ ti' = ti /\ error' = error
            /\ Reissue("delete", "target")
       ELSE /\ pc' = "s1" /\ step' = step /\ ti' = ti - 1 /\ error' = error
            /\ Returned
  /\ UNCHANGED <<fixedVars, runVars, deleteOldData, targetStore, csvIssues>>

\* app.ts 1059-1086: the delete batch has returned
Step1DeleteReturn ==
  /\ UNCHANGED <<reconcilerVars, compilerVars>>
  /\ pc = "s1_delete"
  /\ UNCHANGED declined
  /\ \E outcome \in {"ok", "failed", "raise"} :
       IF outcome = "ok"
       THEN /\ targetStore' = [targetStore EXCEPT ![Task(ti)] = <<>>]
            /\ pc' = "s1" /\ step' = step /\ ti' = ti - 1 /\ error' = error
       ELSE /\ targetStore' = targetStore
            /\ IF ~script.promptOnUpdateError
               THEN Throw("JobError")
               ELSE pc' = "s1_prompt" /\ step' = step /\ ti' = ti /\ error' = error
  /\ Returned
  /\ UNCHANGED <<fixedVars, runVars, deleteOldData, csvIssues>>

\* app.ts 1081-1084
Step1Prompt ==
  /\ UNCHANGED <<reconcilerVars, compilerVars>>
  /\ pc = "s1_prompt"
  /\ \E yes \in BOOLEAN :
     /\ declined' = ~yes
     /\ IF yes THEN pc' = "s1" /\ step' = step /\ ti' = ti - 1 /\ error' = error
       ELSE Decline
  /\ Quiet
  /\ UNCHANGED <<fixedVars, runVars, deleteOldData, targetStore, csvIssues>>

\* ------------------------------------------------- task fields and maps
\* Task.createReferencedTaskFields: the derived field of a reference field
\* is tagged "before" when the parent task has a lower index
IsParentTaskBefore(t, p) == Pos(p) < Pos(t)
BeforeParents(t) == {p \in refMap[t] : IsParentTaskBefore(t, p)}
AfterParents(t) == refMap[t] \ BeforeParents(t)

\* the reference fields of a task, in the order of task.taskFields
FieldOrder(t, ps) == Filter(objects, ps)

\* the names of the fields of the modelled objects
FieldTemp == "Temp__c"
LookupField(p) == p \o "__c"
ExtIdField(p) == p \o "__r.Name"

\* task.taskFields: the fields of the query, then one derived column for
\* every reference field
TaskFields(t) ==
  LET ps == FieldOrder(t, refMap[t])
      plain(n) == [name |-> n, isOriginalField |-> TRUE, isReference |-> FALSE,
                   parent |-> "", originalName |-> n, externalIdTaskField |-> Undefined]
  IN <<plain("Id"), plain("Name"), plain(FieldTemp)>>
     \o [i \in 1..Len(ps) |->
           [name |-> LookupField(ps[i]), isOriginalField |-> TRUE, isReference |-> TRUE,
            parent |-> ps[i], originalName |-> LookupField(ps[i]),
            externalIdTaskField |-> ExtIdField(ps[i])]]
     \o [i \in 1..Len(ps) |->
           [name |-> ExtIdField(ps[i]), isOriginalField |-> FALSE, isReference |-> TRUE,
            parent |-> ps[i], originalName |-> LookupField(ps[i]),
            externalIdTaskField |-> Undefined]]

FieldNames(t) == {TaskFields(t)[j].name : j \in 1..Len(TaskFields(t))}

\* a JavaScript Map or object used as a map: <<key, value>> in insertion order
MapHas(m, key) == \E i \in 1..Len(m) : m[i][1] = key
MapGet(m, key) ==
  IF MapHas(m, key) THEN m[CHOOSE i \in 1..Len(m) : m[i][1] = key][2] ELSE Undefined
MapSet(m, key, v) ==
  IF MapHas(m, key)
  THEN [m EXCEPT ![CHOOSE i \in 1..Len(m) : m[i][1] = key] = <<key, v>>]
  ELSE Append(m, <<key, v>>)

\* a property value that JavaScript treats as false
Falsy(v) == v \in {Empty, Null, Undefined}

\* linq.ts List.DistinctBy(x => x["Id"])
RECURSIVE DistinctById(_, _)
DistinctById(rows, seen) ==
  IF rows = <<>> THEN <<>>
  ELSE IF rows[1].Id \in seen THEN DistinctById(Tail(rows), seen)
  ELSE <<rows[1]>> \o DistinctById(Tail(rows), seen \cup {rows[1].Id})

IsExtraObject(t) == t = RecordType

\* ----------------------------------------------------- steps 2 and 3
HasConditions(t) == query[t].limit \/ query[t].where

\* app.ts 1148-1149
RecordCountRule(t) == ~query[t].midsize

HasRelatedObjectWithParentConditions(t) ==
  \E p \in refMap[t] : HasConditions(p)
\* app.ts 1153-1160
HasRelatedObjectWithConditions(t) ==
  \E p \in refMap[t] : HasConditions(p) \/ HasConditions(t)

\* app.ts 1123-1179: allRecords of the task after the rules of step 2
AllRecordsRule(t) ==
  IF IsExtraObject(t) THEN allRecords[t]
  ELSE RecordCountRule(t) /\ ~HasRelatedObjectWithConditions(t)

\* Task.createListOfLimitedQueries: one batched IN query per reference
\* field whose parent task is before (first pass) or after (second pass)
LimitedQueries(t, before) ==
  IF before THEN BeforeParents(t) ELSE AfterParents(t) \ {t}

\* Needs2 without the test of the Insert operation
Needs2AlsoInsert(t, st) ==
  LET full == AllRecordsRule(t) \/ script.sourceMedia # "Org" IN
  CASE st \in {1, 2} -> ~IsExtraObject(t) /\ ~query[t].limit
    [] st = 3 -> full \/ LimitedQueries(t, TRUE) # {}
    [] st = 4 -> IF full THEN script.targetMedia = "Org"
                 ELSE LimitedQueries(t, TRUE) # {}

\* app.ts 1123-1282: does query number st of the task's step 2 run
\* (1, 2: the record counts; 3: source rows; 4: target rows)
Needs2(t, st) ==
  LET full == AllRecordsRule(t) \/ script.sourceMedia # "Org" IN
  CASE st \in {1, 2} -> ~IsExtraObject(t) /\ ~query[t].limit
    [] st = 3 -> full \/ LimitedQueries(t, TRUE) # {}
    [] st = 4 -> /\ operation[t] # "Insert"
                 /\ IF full THEN script.targetMedia = "Org"
                    ELSE LimitedQueries(t, TRUE) # {}

Store2(st) == IF st \in {1, 3} THEN "source" ELSE "target"
Kind2(t, st) ==
  IF st \in {1, 2} THEN "count"
  ELSE IF AllRecordsRule(t) \/ script.sourceMedia # "Org" THEN "query" ELSE "queryIn"

NextStage2(t, from) ==
  LET later == {st \in (from + 1)..4 : Needs2(t, st)}
  IN IF later = {} THEN 5 ELSE CHOOSE st \in later : \A o \in later : st <= o

\* app.ts 1112-1118, 1286-1297: the head of the loop of step 2
Step2Loop ==
  /\ UNCHANGED <<reconcilerVars, compilerVars>>
  /\ pc = "s2"
  /\ UNCHANGED declined
  /\ IF ti >= N
     THEN /\ pc' = "s3" /\ step' = 3 /\ ti' = 0 /\ stage' = 0
          /\ Quiet /\ UNCHANGED allRecords
     ELSE IF operation[Task(ti)] = "Delete"
     THEN /\ pc' = "s2" /\ step' = step /\ ti' = ti + 1 /\ stage' = 0
          /\ Quiet /\ UNCHANGED allRecords
     ELSE LET t == Task(ti)
              st == NextStage2(t, 0)
          IN /\ allRecords' = [allRecords EXCEPT ![t] = AllRecordsRule(t)]
             /\ IF st = 5
                THEN pc' = "s2" /\ step' = step /\ ti' = ti + 1 /\ stage' = 0 /\ Quiet
                ELSE /\ pc' = "s2_query" /\ step' = step /\ ti' = ti /\ stage' = st
                     /\ Issue(Kind2(t, st), Store2(st))
  /\ UNCHANGED <<objects, refMap, mdMap, tasks, updatedTasks, seedK, corrI,
                 script, operation, query, sourceStore, deleteOldData, targetStore,
                 sourceRecordSet, targetRecordSet, extIdMap, missingParentRecords,
                 reportFile, updatedRecords, writeLog, csvIssues, error>>

\* app.ts 1125-1282: a query of step 2 has returned
Step2Return ==
  /\ UNCHANGED <<reconcilerVars, compilerVars>>
  /\ pc = "s2_query"
  /\ UNCHANGED declined
  /\ \E ok \in BOOLEAN :
       LET t == Task(ti)
           st == NextStage2(t, stage)
       IN IF ~ok
          THEN /\ Throw("JobError") /\ Returned /\ stage' = stage
               /\ UNCHANGED <<sourceRecordSet, targetRecordSet>>
          ELSE /\ sourceRecordSet' = IF stage = 3
                                      THEN [sourceRecordSet EXCEPT ![t] = sourceStore[t]]
                                      ELSE sourceRecordSet
               /\ targetRecordSet' = IF stage = 4
                                      THEN [targetRecordSet EXCEPT ![t] = targetStore[t]]
                                      ELSE targetRecordSet
               /\ error' = error
               /\ IF st = 5
                  THEN pc' = "s2" /\ step' = step /\ ti' = ti + 1 /\ stage' = 0 /\ Returned
                  ELSE /\ pc' = "s2_query" /\ step' = step /\ ti' = ti /\ stage' = st
                       /\ Reissue(Kind2(t, st), Store2(st))
  /\ UNCHANGED <<objects, refMap, mdMap, tasks, updatedTasks, seedK, corrI,
                 script, operation, query, sourceStore, deleteOldData, targetStore,
                 allRecords, extIdMap, missingParentRecords,
                 reportFile, updatedRecords, writeLog, csvIssues>>

\* SfdxUtils.groupRecords(rec, "Id", "OR"): the rows of all the lists, one per Id
GroupRecords(old, new) == DistinctById(old \o new, {})

\* app.ts 1430-1435: the key under which a queried target row is mapped
ExtIdKey(t, row) == IF t = RecordType THEN <<row.st, row.ext>> ELSE <<"", row.ext>>

\* app.ts 1430-1435
RECURSIVE BuildExtIdMap(_, _, _)
BuildExtIdMap(m, t, rows) ==
  IF rows = <<>> THEN m
  ELSE BuildExtIdMap(MapSet(m, ExtIdKey(t, rows[1]), rows[1].Id), t, Tail(rows))

\* app.ts 1320-1324: the truthy values of the self-reference lookup column
SelfValues(t, rows) ==
  IF t \in refMap[t]
  THEN {rows[i].look[t] : i \in 1..Len(rows)} \ {Empty, Null, Undefined, Absent}
  ELSE {}

\* app.ts 1326-1330: the target rows the self-reference query returns
RECURSIVE AddSelfReferenced(_, _, _)
AddSelfReferenced(m, rows, values) ==
  IF rows = <<>> THEN m
  ELSE AddSelfReferenced(IF rows[1].ext \in values
                         THEN MapSet(m, <<"", rows[1].ext>>, rows[1].Id) ELSE m,
                         Tail(rows), values)

\* app.ts 1341-1428: does query number st of the task's step 3 run
\* (1: source rows of the second pass; 2: target rows; 3: self-reference)
Needs3(t, st, srcRows) ==
  LET second == ~allRecords[t] /\ script.sourceMedia = "Org"
                /\ LimitedQueries(t, FALSE) # {} IN
  CASE st = 1 -> second
    [] st = 2 -> second /\ operation[t] # "Insert"
    [] st = 3 -> script.targetMedia = "Org" /\ SelfValues(t, srcRows) # {}

Store3(st) == IF st = 1 THEN "source" ELSE "target"

NextStage3(t, from, srcRows) ==
  LET later == {st \in (from + 1)..3 : Needs3(t, st, srcRows)}
  IN IF later = {} THEN 4 ELSE CHOOSE st \in later : \A o \in later : st <= o

\* app.ts 1297-1302, 1421-1446: the head of the loop of step 3
Step3Loop ==
  /\ UNCHANGED <<reconcilerVars, compilerVars>>
  /\ pc = "s3"
  /\ UNCHANGED declined
  /\ IF ti >= N
     THEN /\ pc' = "s4" /\ step' = 4 /\ ti' = 0 /\ stage' = 0
          /\ Quiet /\ UNCHANGED extIdMap
     ELSE IF operation[Task(ti)] = "Delete"
     THEN /\ pc' = "s3" /\ step' = step /\ ti' = ti + 1 /\ stage' = 0
          /\ Quiet /\ UNCHANGED extIdMap
     ELSE LET t == Task(ti)
              st == NextStage3(t, 0, sourceRecordSet[t])
          IN IF st = 4
             THEN /\ extIdMap' = [extIdMap EXCEPT
                                    ![t] = BuildExtIdMap(extIdMap[t], t, targetRecordSet[t])]
                  /\ pc' = "s3" /\ step' = step /\ ti' = ti + 1 /\ stage' = 0 /\ Quiet
             ELSE /\ pc' = "s3_query" /\ step' = step /\ ti' = ti /\ stage' = st
                  /\ Issue("queryIn", Store3(st)) /\ UNCHANGED extIdMap
  /\ UNCHANGED <<objects, refMap, mdMap, tasks, updatedTasks, seedK, corrI,
                 script, operation, query, sourceStore, deleteOldData, targetStore,
                 sourceRecordSet, targetRecordSet, allRecords, missingParentRecords,
                 reportFile, updatedRecords, writeLog, csvIssues, error>>

\* app.ts 1357-1435: a query of step 3 has returned; the self-reference
\* query is awaited outside any try block
Step3Return ==
  /\ UNCHANGED <<reconcilerVars, compilerVars>>
  /\ pc = "s3_query"
  /\ UNCHANGED declined
  /\ \E ok \in BOOLEAN :
       LET t == Task(ti)
           src == IF stage = 1 /\ Len(sourceStore[t]) > 0
                  THEN GroupRecords(sourceRecordSet[t], sourceStore[t])
                  ELSE sourceRecordSet[t]
           tgt == IF stage = 2 /\ Len(targetStore[t]) > 0
                  THEN GroupRecords(targetRecordSet[t], targetStore[t])
                  ELSE targetRecordSet[t]
           map == IF stage = 3
                  THEN AddSelfReferenced(extIdMap[t], targetStore[t], SelfValues(t, src))
                  ELSE extIdMap[t]
           st == NextStage3(t, stage, src)
       IN IF ~ok
          THEN /\ Throw(IF stage = 3 THEN "Error" ELSE "JobError")
               /\ Returned /\ stage' = stage
               /\ UNCHANGED <<sourceRecordSet, targetRecordSet, extIdMap>>
          ELSE /\ sourceRecordSet' = [sourceRecordSet EXCEPT ![t] = src]
               /\ targetRecordSet' = [targetRecordSet EXCEPT ![t] = tgt]
               /\ error' = error
               /\ IF st = 4
                  THEN /\ extIdMap' = [extIdMap EXCEPT ![t] = BuildExtIdMap(map, t, tgt)]
                       /\ pc' = "s3" /\ step' = step /\ ti' = ti + 1 /\ stage' = 0
                       /\ Returned
                  ELSE /\ extIdMap' = [extIdMap EXCEPT ![t] = map]
                       /\ pc' = "s3_query" /\ step' = step /\ ti' = ti /\ stage' = st
                       /\ Reissue("queryIn", Store3(st))
  /\ UNCHANGED <<objects, refMap, mdMap, tasks, updatedTasks, seedK, corrI,
                 script, operation, query, sourceStore, deleteOldData, targetStore,
                 allRecords, missingParentRecords,
                 reportFile, updatedRecords, writeLog, csvIssues>>

\* ------------------------------------------------------ steps 4 and 5
\* String.startsWith on object names: the pool holds one proper prefix
IsPrefix(a, b) == a = b \/ (a = "A" /\ b = "AB")

\* NullValue without the RecordType branch of app.ts 1583-1585
NullValueAlwaysNull(t, p) == Null

\* app.ts 1582-1585: the value written for a present but empty lookup column
NullValue(t, p) ==
  IF p = RecordType
  THEN LET m == extIdMap[p]
           ks == {i \in 1..Len(m) : IsPrefix(t, m[i][1][1])}
       IN IF ks = {} THEN Undefined
          ELSE m[CHOOSE i \in ks : \A o \in ks : i <= o][2]
  ELSE Null

\* app.ts 1590, 1742: the key looked up in the table of the parent
LookupKey(t, p, look, forward) ==
  LET v == IF look = Absent THEN Undefined ELSE look
  IN IF p = RecordType /\ forward THEN <<t, v>> ELSE <<"", v>>

\* app.ts 1593-1600, 1745-1752: a row of the missing-parent report
MissingRow(t, p, row) ==
  [child |-> row.Id, sobject |-> t, parent |-> p,
   value |-> IF row.look[p] = Absent THEN "FIELD IS MISSING" ELSE row.look[p]]

\* app.ts 1586-1608, 1738-1760: one reference field over all source rows;
\* acc is <<rows, report, number of unmatched values>>
RECURSIVE ResolveRows(_, _, _, _, _, _)
ResolveRows(acc, k, t, p, nullValue, forward) ==
  IF k > Len(acc[1]) THEN acc
  ELSE LET row == acc[1][k]
           look == row.look[p]
           value == MapGet(extIdMap[p], LookupKey(t, p, look, forward))
       IN IF look # Absent /\ Falsy(look)
          THEN ResolveRows(<<[acc[1] EXCEPT ![k].fld[p] = nullValue], acc[2], acc[3]>>,
                           k + 1, t, p, nullValue, forward)
          ELSE IF Falsy(value)
          THEN ResolveRows(<<[acc[1] EXCEPT ![k].fld[p] = Absent],
                             MapSet(acc[2], <<t, row.Id>>, MissingRow(t, p, row)),
                             acc[3] + 1>>,
                           k + 1, t, p, nullValue, forward)
          ELSE ResolveRows(<<[acc[1] EXCEPT ![k].fld[p] = value], acc[2], acc[3]>>,
                           k + 1, t, p, nullValue, forward)

\* app.ts 1577-1609 (forward) and 1733-1761: the fields in task-field order
RECURSIVE ResolveFields(_, _, _, _)
ResolveFields(acc, t, ps, forward) ==
  IF ps = <<>> THEN acc
  ELSE ResolveFields(
         ResolveRows(acc, 1, t, ps[1],
                     IF forward THEN NullValue(t, ps[1]) ELSE Null, forward),
         t, Tail(ps), forward)

\* SfdxUtils.processTaskDataAsync: the omitted fields are not sent
Payload(rows, omit) ==
  [k \in 1..Len(rows) |->
     [rows[k] EXCEPT !.fld = [p \in DOMAIN rows[k].fld |->
                                IF p \in omit THEN Absent ELSE rows[k].fld[p]]]]

\* SfdxUtils.processTaskDataAsync: the rows it returns, each with the
\* identifier the target gave it; Update writes only rows the target holds
RECURSIVE WriteResult(_, _, _)
WriteResult(op, rows, tgt) ==
  IF rows = <<>> THEN <<>>
  ELSE LET r == rows[1]
           hits == {i \in 1..Len(tgt) : tgt[i].ext = r.ext}
           old == tgt[CHOOSE i \in hits : \A o \in hits : i <= o].Id
           new == NewIds[IndexOf(SrcIds, r.Id) + 1]
           rest == WriteResult(op, Tail(rows), tgt)
       IN IF hits # {} /\ op \in {"Update", "Upsert"} THEN <<[r EXCEPT !.Id = old]>> \o rest
          ELSE IF hits = {} /\ op \in {"Insert", "Upsert"} THEN <<[r EXCEPT !.Id = new]>> \o rest
          ELSE IF op = "Insert" THEN <<[r EXCEPT !.Id = new]>> \o rest
          ELSE rest

\* MapWritten without the assignment to targetExtIdMap
MapNotWritten(m, result) == m

\* app.ts 1554-1557, 1671-1675: the table of the task after its write
RECURSIVE MapWritten(_, _)
MapWritten(m, result) ==
  IF result = <<>> THEN m
  ELSE MapWritten(MapSet(m, <<"", result[1].ext>>, result[1].Id), Tail(result))

Ids(rows) == {rows[i].Id : i \in 1..Len(rows)}
SelectRows(rows, ids) ==
  Filter(rows, {rows[i] : i \in {j \in 1..Len(rows) : rows[j].Id \in ids}})

\* app.ts 1560-1562: rows without reference fields replace the cached rows
MergeDirect(tgt, result) ==
  SelectRows(tgt, Ids(tgt) \ Ids(result)) \o result

\* a property read from a row that does not have it
Read(v) == IF v = Absent THEN Undefined ELSE v

\* app.ts 1671-1675: updatedRecordsMap keeps the last written row of an
\* identifier
LastIndex(result, id) ==
  CHOOSE i \in 1..Len(result) :
    result[i].Id = id /\ \A j \in 1..Len(result) : result[j].Id = id => j <= i

\* the rows of a list at the given positions, in the order of the list
RECURSIVE Pick(_, _, _)
Pick(rows, keep, i) ==
  IF i > Len(rows) THEN <<>>
  ELSE (IF i \in keep THEN <<rows[i]>> ELSE <<>>) \o Pick(rows, keep, i + 1)

\* MergeReferenced with every key of the cached row assigned
MergeReferencedAll(tgt, result, omit) ==
  LET removed == {LastIndex(result, id) : id \in Ids(tgt) \cap Ids(result)}
  IN [k \in 1..Len(tgt) |->
        IF tgt[k].Id \in Ids(result)
        THEN LET u == result[LastIndex(result, tgt[k].Id)]
             IN [Id |-> u.Id, ext |-> u.ext, st |-> u.st,
                 look |-> [p \in DOMAIN tgt[k].look |-> Read(u.look[p])],
                 fld |-> [p \in DOMAIN tgt[k].fld |-> Read(u.fld[p])]]
        ELSE tgt[k]]
     \o Pick(result, (1..Len(result)) \ removed, 1)

\* app.ts 1677-1688: cached rows take the values of the written row kept for
\* their identifier, except the omitted fields; that written row is removed
\* from the list and the written rows that are left are appended
MergeReferenced(tgt, result, omit) ==
  LET removed == {LastIndex(result, id) : id \in Ids(tgt) \cap Ids(result)}
  IN [k \in 1..Len(tgt) |->
        IF tgt[k].Id \in Ids(result)
        THEN LET u == result[LastIndex(result, tgt[k].Id)]
             IN [Id |-> u.Id, ext |-> u.ext, st |-> u.st,
                 look |-> [p \in DOMAIN tgt[k].look |->
                             IF ExtIdField(p) \in omit THEN tgt[k].look[p]
                             ELSE Read(u.look[p])],
                 fld |-> [p \in DOMAIN tgt[k].fld |->
                            IF p \in omit THEN tgt[k].fld[p] ELSE Read(u.fld[p])]]
        ELSE tgt[k]]
     \o Pick(result, (1..Len(result)) \ removed, 1)

\* app.ts 1835-1846: writeallErrorReportsToCSVFiles
FlushReports(report) ==
  [written |-> TRUE, rows |-> [i \in 1..Len(report) |-> report[i][2]]]

\* the list a write call has assigned to updatedRecords
Records(rows) == [defined |-> TRUE, rows |-> rows]

\* variables that steps 4 and 5 never assign
settledVars == <<objects, refMap, mdMap, tasks, updatedTasks, seedK, corrI, script,
                 operation, query, sourceStore, deleteOldData, allRecords, csvIssues,
                 stage>>

Goto(p, i) == pc' = p /\ step' = step /\ ti' = i /\ error' = error

\* FieldNamesToOmit4 with a filter that never holds: no field is left to step 5
OmitNothing4(t) == {}

\* the name under which the rows of the stores keep the value of a task
\* field: a reference column under the name of its parent
Key(f) == IF f.isOriginalField /\ f.isReference THEN f.parent ELSE f.name

\* app.ts 1571-1573: the reference fields left to step 5 and the derived
\* lookup columns
FieldNamesToOmit4(t) ==
  {Key(f) : f \in {x \in Range(TaskFields(t)) :
                     ~(\/ ~x.isReference
                       \/ (x.externalIdTaskField # Undefined
                            /\ IsParentTaskBefore(t, x.parent)))}}

\* the write call of a task is issued with the rows and the omit list
IssueWrite(t, op, omit, rows) ==
  /\ Issue("write", "target")
  /\ writeLog' = Append(writeLog, [step |-> step, task |-> t, operation |-> op,
                                    omit |-> omit, rows |-> Payload(rows, omit),
                                    result |-> NoRecords])

\* PromptsOnMissing without the test of the script flag
PromptsOnMissingAlways(count) == count > 0

\* app.ts 1611-1619, 1763-1771: unmatched values were counted and the script
\* asks the user about them
PromptsOnMissing(count) == count > 0 /\ script.promptOnMissingParentObjects

\* app.ts 1469-1627: the head of the loop of step 4, up to the first await
Step4Loop ==
  /\ UNCHANGED <<reconcilerVars, compilerVars>>
  /\ pc = "s4"
  /\ UNCHANGED declined
  /\ IF ti >= N
     THEN /\ pc' = "s5" /\ step' = 5 /\ ti' = 0 /\ error' = error /\ Quiet
          /\ UNCHANGED <<sourceRecordSet, targetRecordSet, missingParentRecords,
                         updatedRecords, writeLog>>
     ELSE IF operation[Task(ti)] \in {"Readonly", "Delete"} /\ script.targetMedia = "Org"
     THEN /\ Goto("s4", ti + 1) /\ Quiet
          /\ UNCHANGED <<sourceRecordSet, targetRecordSet, missingParentRecords,
                         updatedRecords, writeLog>>
     ELSE LET t == Task(ti)
              src == DistinctById(sourceRecordSet[t], {})
              tgt == DistinctById(targetRecordSet[t], {})
              res == ResolveFields(<<src, missingParentRecords, 0>>, t,
                                   FieldOrder(t, BeforeParents(t)), TRUE)
          IN /\ targetRecordSet' = [targetRecordSet EXCEPT ![t] = tgt]
             /\ updatedRecords' = NoRecords
             /\ IF script.targetMedia = "File"
                THEN /\ sourceRecordSet' = [sourceRecordSet EXCEPT ![t] = src]
                     /\ Goto("s4_file", ti)
                     /\ Issue("writeFile", "target")
                     /\ writeLog' = Append(writeLog,
                          [step |-> step, task |-> t, operation |-> "File", omit |-> {},
                           rows |-> src, result |-> NoRecords])
                     /\ UNCHANGED missingParentRecords
                ELSE IF refMap[t] = {}
                THEN /\ sourceRecordSet' = [sourceRecordSet EXCEPT ![t] = src]
                     /\ Goto("s4_write", ti)
                     /\ IssueWrite(t, operation[t], {}, src)
                     /\ UNCHANGED missingParentRecords
                ELSE /\ sourceRecordSet' = [sourceRecordSet EXCEPT ![t] = res[1]]
                     /\ missingParentRecords' = res[2]
                     /\ IF PromptsOnMissing(res[3])
                        THEN Goto("s4_missing", ti) /\ Quiet /\ UNCHANGED writeLog
                        ELSE /\ Goto("s4_write", ti)
                             /\ IssueWrite(t, operation[t], FieldNamesToOmit4(t), res[1])
  /\ UNCHANGED <<settledVars, targetStore, extIdMap, reportFile>>

\* app.ts 1503-1508: the file of the task has been written
Step4FileReturn ==
  /\ UNCHANGED <<reconcilerVars, compilerVars>>
  /\ pc = "s4_file"
  /\ UNCHANGED declined
  /\ \E ok \in BOOLEAN : IF ok THEN Goto("s4", ti + 1) ELSE Throw("Error")
  /\ Returned
  /\ UNCHANGED <<settledVars, targetStore, extIdMap, reportFile, sourceRecordSet,
                 targetRecordSet, missingParentRecords, updatedRecords, writeLog>>

\* app.ts 1619-1625: the user is asked about the missing parent records
Step4MissingPrompt ==
  /\ UNCHANGED <<reconcilerVars, compilerVars>>
  /\ pc = "s4_missing"
  /\ \E yes \in BOOLEAN :
     /\ declined' = ~yes
     /\ IF yes
       THEN /\ Goto("s4_write", ti)
            /\ IssueWrite(Task(ti), operation[Task(ti)], FieldNamesToOmit4(Task(ti)),
                          sourceRecordSet[Task(ti)])
            /\ UNCHANGED reportFile
       ELSE /\ reportFile' = FlushReports(missingParentRecords)
            /\ Decline /\ Quiet /\ UNCHANGED writeLog
  /\ UNCHANGED <<settledVars, targetStore, extIdMap, sourceRecordSet,
                 targetRecordSet, missingParentRecords, updatedRecords>>

\* app.ts 1551-1565 and 1667-1689: the written rows enter the table and the
\* cached target rows of the task; the loop goes on with the next task
Merge4(t, result) ==
  /\ extIdMap' = [extIdMap EXCEPT ![t] = MapWritten(extIdMap[t], result)]
  /\ targetRecordSet' =
       [targetRecordSet EXCEPT ![t] =
          IF refMap[t] = {} THEN MergeDirect(targetRecordSet[t], result)
          ELSE MergeReferenced(targetRecordSet[t], result, FieldNamesToOmit4(t))]
  /\ Goto("s4", ti + 1)

\* the store after a write call that succeeded
StoreWritten(rows, result) == SelectRows(rows, Ids(rows) \ Ids(result)) \o result

SetResult(log, result) == [log EXCEPT ![Len(log)].result = result]

\* app.ts 1517-1549 and 1630-1665: the write call of step 4 has returned,
\* has reported failed records, or has raised
Step4WriteReturn ==
  /\ UNCHANGED <<reconcilerVars, compilerVars>>
  /\ pc = "s4_write"
  /\ UNCHANGED declined
  /\ \E outcome \in {"ok", "failed", "raise"} :
       LET t == Task(ti)
           result == WriteResult(operation[t], sourceRecordSet[t], targetRecordSet[t])
       IN IF outcome = "ok"
          THEN /\ updatedRecords' = Records(result)
               /\ writeLog' = SetResult(writeLog, Records(result))
               /\ targetStore' = [targetStore EXCEPT ![t] = StoreWritten(targetStore[t], result)]
               /\ Merge4(t, result)
               /\ UNCHANGED reportFile
          ELSE /\ updatedRecords' = IF outcome = "failed" THEN Records(result) ELSE NoRecords
               /\ writeLog' = IF outcome = "failed" THEN SetResult(writeLog, Records(result))
                              ELSE writeLog
               /\ reportFile' = IF refMap[t] = {} THEN reportFile
                                 ELSE FlushReports(missingParentRecords)
               /\ IF script.promptOnUpdateError
                  THEN Goto("s4_errprompt", ti) ELSE Throw("JobError")
               /\ UNCHANGED <<targetStore, extIdMap, targetRecordSet>>
  /\ Returned
  /\ UNCHANGED <<settledVars, sourceRecordSet, missingParentRecords>>

\* app.ts 1543-1565 and 1659-1689: the user is asked about the update error;
\* after "yes" the rows of the write call are read
Step4ErrorPrompt ==
  /\ UNCHANGED <<reconcilerVars, compilerVars>>
  /\ pc = "s4_errprompt"
  /\ \E yes \in BOOLEAN :
     /\ declined' = ~yes
     /\ IF ~yes THEN Decline /\ UNCHANGED <<extIdMap, targetRecordSet>>
       ELSE IF ~updatedRecords.defined
       THEN Throw("TypeError") /\ UNCHANGED <<extIdMap, targetRecordSet>>
       ELSE Merge4(Task(ti), updatedRecords.rows)
  /\ Quiet
  /\ UNCHANGED <<settledVars, targetStore, sourceRecordSet, missingParentRecords,
                 reportFile, updatedRecords, writeLog>>

\* FieldNamesToOmit5 with a filter that never holds
OmitNothing5(t) == {}

\* Operation5 with the operation of the script object, as in step 4
OperationOfTask(t) == operation[t]

\* app.ts 1787: the operation of the write call of step 5
Operation5(t) == "Update"

\* app.ts 1722-1724: every field but the identifier and the reference fields
\* resolved in step 5
FieldNamesToOmit5(t) ==
  {Key(f) : f \in {x \in Range(TaskFields(t)) :
                     /\ ~(x.externalIdTaskField # Undefined /\ ~IsParentTaskBefore(t, x.parent))
                     /\ x.name # "Id"}}

\* app.ts 1707-1777, 1824-1831: the head of the loop of step 5, up to the
\* first await; after the last task the reports are written and the job ends
Step5Loop ==
  /\ UNCHANGED <<reconcilerVars, compilerVars>>
  /\ pc = "s5"
  /\ UNCHANGED declined
  /\ IF script.targetMedia # "Org" \/ ti >= N
     THEN /\ reportFile' = FlushReports(missingParentRecords)
          /\ Goto("done", ti) /\ Quiet
          /\ UNCHANGED <<sourceRecordSet, missingParentRecords, updatedRecords, writeLog>>
     ELSE IF \/ operation[Task(ti)] \in {"Readonly", "Delete"}
             \/ AfterParents(Task(ti)) = {}
     THEN /\ Goto("s5", ti + 1) /\ Quiet
          /\ UNCHANGED <<sourceRecordSet, missingParentRecords, updatedRecords,
                         writeLog, reportFile>>
     ELSE LET t == Task(ti)
              res == ResolveFields(<<sourceRecordSet[t], missingParentRecords, 0>>, t,
                                   FieldOrder(t, AfterParents(t)), FALSE)
          IN /\ sourceRecordSet' = [sourceRecordSet EXCEPT ![t] = res[1]]
             /\ missingParentRecords' = res[2]
             /\ updatedRecords' = NoRecords
             /\ reportFile' = reportFile
             /\ IF PromptsOnMissing(res[3])
                THEN Goto("s5_missing", ti) /\ Quiet /\ UNCHANGED writeLog
                ELSE /\ Goto("s5_write", ti)
                     /\ IssueWrite(t, Operation5(t), FieldNamesToOmit5(t), res[1])
  /\ UNCHANGED <<settledVars, targetStore, extIdMap, targetRecordSet>>

\* app.ts 1770-1776
Step5MissingPrompt ==
  /\ UNCHANGED <<reconcilerVars, compilerVars>>
  /\ pc = "s5_missing"
  /\ \E yes \in BOOLEAN :
     /\ declined' = ~yes
     /\ IF yes
       THEN /\ Goto("s5_write", ti)
            /\ IssueWrite(Task(ti), Operation5(Task(ti)), FieldNamesToOmit5(Task(ti)),
                          sourceRecordSet[Task(ti)])
            /\ UNCHANGED reportFile
       ELSE /\ reportFile' = FlushReports(missingParentRecords)
            /\ Decline /\ Quiet /\ UNCHANGED writeLog
  /\ UNCHANGED <<settledVars, targetStore, extIdMap, sourceRecordSet,
                 targetRecordSet, missingParentRecords, updatedRecords>>

\* app.ts 1779-1819: the write call of step 5 has returned, has reported
\* failed records, or has raised
Step5WriteReturn ==
  /\ UNCHANGED <<reconcilerVars, compilerVars>>
  /\ pc = "s5_write"
  /\ UNCHANGED declined
  /\ \E outcome \in {"ok", "failed", "raise"} :
       LET t == Task(ti)
           result == WriteResult(Operation5(t), sourceRecordSet[t], targetRecordSet[t])
       IN IF outcome = "ok"
          THEN /\ updatedRecords' = Records(result)
               /\ writeLog' = SetResult(writeLog, Records(result))
               /\ targetStore' = [targetStore EXCEPT ![t] = StoreWritten(targetStore[t], result)]
               /\ Goto("s5", ti + 1)
               /\ UNCHANGED reportFile
          ELSE /\ updatedRecords' = IF outcome = "failed" THEN Records(result) ELSE NoRecords
               /\ writeLog' = IF outcome = "failed" THEN SetResult(writeLog, Records(result))
                              ELSE writeLog
               /\ reportFile' = FlushReports(missingParentRecords)
               /\ IF script.promptOnUpdateError
                  THEN Goto("s5_errprompt", ti) ELSE Throw("JobError")
               /\ UNCHANGED targetStore
  /\ Returned
  /\ UNCHANGED <<settledVars, sourceRecordSet, missingParentRecords, extIdMap,
                 targetRecordSet>>

\* app.ts 1811-1819: the user is asked about the update error; after "yes"
\* the rows of the write call are counted
Step5ErrorPrompt ==
  /\ UNCHANGED <<reconcilerVars, compilerVars>>
  /\ pc = "s5_errprompt"
  /\ \E yes \in BOOLEAN :
     /\ declined' = ~yes
     /\ IF ~yes THEN Decline
       ELSE IF ~updatedRecords.defined THEN Throw("TypeError")
       ELSE Goto("s5", ti + 1)
  /\ Quiet
  /\ UNCHANGED <<settledVars, targetStore, sourceRecordSet, missingParentRecords,
                 reportFile, updatedRecords, writeLog, extIdMap, targetRecordSet>>

NextExec ==
  \/ Step0Begin \/ Step0Return \/ Step0Prompt
  \/ Step1Loop \/ Step1QueryReturn \/ Step1DeleteReturn \/ Step1Prompt
  \/ Step2Loop \/ Step2Return
  \/ Step3Loop \/ Step3Return
  \/ Step4Loop \/ Step4FileReturn \/ Step4MissingPrompt \/ Step4WriteReturn
  \/ Step4ErrorPrompt
  \/ Step5Loop \/ Step5MissingPrompt \/ Step5WriteReturn \/ Step5ErrorPrompt

Spec == InitExec /\ [][NextExec]_vars

\* executeJob is called on a job of three objects in which the first object
\* references the third and the third the second: a chain of two reference
\* fields, with the other settings as in the runs of InitExec
ChainRefs == {<<"ref", NamePool[3], NamePool[2], 0, "">>}

\* executeJob is called on a job of the first three objects of the pool whose
\* script has the settings of Base besides the chosen ones
InitWith(Base) ==
  /\ pc = "start"
  /\ \E n \in {3} :
       \E objs \in {SubSeq(NamePool, 1, n)} :
         \E fs \in {FeatureList(Range(objs))} :
         \E f \in Choices(Len(fs)) :
         \E F \in {Chosen(fs, f) \cup Base} :
         \E names \in {Range(objs)} :
           /\ Consistent(F)
           /\ objects = objs
           /\ refMap = RefsOf(F, names)
           /\ mdMap = [t \in names |-> {}]
           /\ tasks = PlanJob(objs, RefsOf(F, names), [t \in names |-> {}])
           /\ updatedTasks = Reverse(PlanJob(objs, RefsOf(F, names), [t \in names |-> {}]))
           /\ seedK = n + 1
           /\ script = ScriptOf(F)
           /\ operation = [t \in names |-> OperationOf(F, t)]
           /\ query = [t \in names |-> QueryOf(F, t)]
           /\ deleteOldData = [t \in names |-> DeleteOldDataOf(F, t)]
           /\ sourceStore = [t \in names |-> SourceRowsOf(F, names, t)]
           /\ targetStore = [t \in names |-> TargetRowsOf(F, objs, t)]
           /\ sourceRecordSet = [t \in names |-> <<>>]
           /\ targetRecordSet = [t \in names |-> <<>>]
           /\ allRecords = [t \in names |-> TRUE]
           /\ extIdMap = [t \in names |-> <<>>]
  /\ corrI = -1
  /\ step = 0
  /\ ti = 0
  /\ stage = 0
  /\ missingParentRecords = <<>>
  /\ reportFile = Unwritten
  /\ csvIssues = 0
  /\ updatedRecords = NoRecords
  /\ opLog = <<>>
  /\ writeLog = <<>>
  /\ outstanding = 0
  /\ error = NoError
  /\ declined = FALSE
  /\ ReconcilerIdle
  /\ CompilerIdle

InitChain == InitWith(ChainRefs)

SpecChain == InitChain /\ [][NextExec]_vars

\* executeJob is called on a job of three objects in which the first object
\* references itself besides the third one: its self-reference is left to the
\* second write pass
SelfRefs == {<<"ref", NamePool[1], NamePool[1], 0, "">>}

InitSelf == InitWith(SelfRefs)

SpecSelf == InitSelf /\ [][NextExec]_vars

\* executeJob is called on a job of three objects in which the first object
\* references itself and the target holds a row of it that the source lacks
OwnRow == SelfRefs \cup {<<"own", NamePool[1], "", 0, "">>}

InitOwn == InitWith(OwnRow)

SpecOwn == InitOwn /\ [][NextExec]_vars

\* executeJob is called on a job of three objects whose first object is
\* flagged deleteOldData
DeleteOld == {<<"del", NamePool[1], "", 0, "">>}

InitDelete == InitWith(DeleteOld)

SpecDelete == InitDelete /\ [][NextExec]_vars

\* executeJob is called on a job of three objects whose first object is
\* inserted
Inserted == {<<"op", NamePool[1], "", 0, "Insert">>}

InitInsert == InitWith(Inserted)

SpecInsert == InitInsert /\ [][NextExec]_vars

\* executeJob is called on a job of three objects whose first object is
\* Readonly and flagged deleteOldData
ReadonlyOld == {<<"op", NamePool[1], "", 0, "Readonly">>, <<"del", NamePool[1], "", 0, "">>}

InitReadonly == InitWith(ReadonlyOld)

SpecReadonly == InitReadonly /\ [][NextExec]_vars

\* executeJob is called on a job of three objects whose first object has the
\* operation Delete
DeleteOp == {<<"op", NamePool[1], "", 0, "Delete">>}

InitDeleteOp == InitWith(DeleteOp)

SpecDeleteOp == InitDeleteOp /\ [][NextExec]_vars

\* executeJob is called on a job of three objects in which the third object
\* references the second one and is inserted, and both are flagged
\* deleteOldData
ChildAndParentOld ==
  ChainRefs \cup {<<"op", NamePool[3], "", 0, "Insert">>,
                  <<"del", NamePool[3], "", 0, "">>,
                  <<"del", NamePool[2], "", 0, "">>}

InitChildAndParentOld == InitWith(ChildAndParentOld)

SpecChildAndParentOld == InitChildAndParentOld /\ [][NextExec]_vars

\* ----------------------------------------- executeJob step 0 on the files
\* A column of a CSV file is kept as the list of the segments its name has
\* between the separators "!": a plain column has one segment.
Column(name) == <<name>>
FakeId == "0011p00002Zh1kr"
UnknownField == "Zz__c"               \* a name no field of a task has
Compound(first, second) == <<first, second>>

\* app.ts 750-759 and the other csvIssues.push calls: a row of csvIssues
CsvIssue(severity, t, field, parent, id, description) ==
  [severity |-> severity, sobject |-> t, field |-> field, parent |-> parent,
   id |-> id, description |-> description]

\* CommonUtils.readCsvFile(filepath, 1): the columns of the first row
Header(rows) == IF rows = <<>> THEN {} ELSE DOMAIN rows[1]

\* CommonUtils.readCsvFileWithCache: the file is read once and then kept
ReadCsvFileWithCache(cache, t) ==
  IF MapHas(cache, t) \/ files[t] = <<>> THEN cache ELSE MapSet(cache, t, files[t])

\* CommonUtils.writeCsvFile: null is written as an empty cell
WriteCsvFile(rows) ==
  [k \in 1..Len(rows) |->
     [c \in DOMAIN rows[k] |-> IF rows[k][c] = Null THEN Empty ELSE rows[k][c]]]

\* a row with the given cell set
WithCell(row, c, v) == [d \in DOMAIN row \cup {c} |-> IF d = c THEN v ELSE row[d]]
WithoutCell(row, c) == [d \in DOMAIN row \ {c} |-> row[d]]
Cell(row, c) == IF c \in DOMAIN row THEN row[c] ELSE Undefined

\* app.ts 841-866: the lookup column of the rows is filled from the parent
\* file; the result is <<rows, issues>>
RECURSIVE FillRows(_, _, _, _, _)
FillRows(rows, refRows, t, f, k) ==
  IF k > Len(rows) THEN <<rows, <<>>>>
  ELSE LET row == rows[k]
           id == Cell(row, Column(f.originalName))
           hits == {i \in 1..Len(refRows) : refRows[i][Column("Id")] = id}
           extIdValue == IF ~Falsy(id) /\ hits # {}
                         THEN Cell(refRows[CHOOSE i \in hits : TRUE], Column("Name"))
                         ELSE Undefined
           rest(r) == FillRows([rows EXCEPT ![k] = r], refRows, t, f, k + 1)
       IN IF Column(f.name) \in DOMAIN row THEN rest(row)
          ELSE IF extIdValue # Undefined
          THEN rest(WithCell(row, Column(f.name), extIdValue))
          ELSE LET r == rest(WithCell(row, Column(f.name), Null))
               IN <<r[1], <<CsvIssue("NORMAL", t, f.originalName, f.parent, id,
                                     "MISSING PARENT RECORD FOR THE GIVEN LOOKUP VALUE")>>
                           \o r[2]>>

\* app.ts 784-868: a derived column that the header lacks
AddLookupColumn(t, hdr, f, s) ==
  IF operation[f.parent] \in {"Readonly", "Delete"} THEN s
  ELSE IF Column(f.name) \in hdr THEN s
  ELSE LET c1 == ReadCsvFileWithCache(s.cache, t)
           c2 == ReadCsvFileWithCache(c1, f.parent)
       IN IF ~MapHas(c2, f.parent)
          THEN [s EXCEPT !.cache = c1,
                         !.issues = Append(@, CsvIssue("HIGH", t, f.originalName, f.parent, Null,
                              "CSV FILE FOR THE PARENT SOBJECT IS EMPTY OR DOES NOT EXIST"))]
          ELSE LET filled == FillRows(MapGet(c2, t), MapGet(c2, f.parent), t, f, 1)
               IN [s EXCEPT !.cache = MapSet(c2, t, filled[1]),
                            !.dirty = @ \cup {t},
                            !.issues = @ \o filled[2]]

\* app.ts 885-887: the first column that has the field name behind a separator
CompoundColumns(hdr, f) == {c \in hdr : \E i \in 2..Len(c) : c[i] = f.name}

\* app.ts 870-966: a compound column that names the field as its second segment
ExpandCompoundColumn(t, hdr, f, s) ==
  IF CompoundColumns(hdr, f) = {} THEN s
  ELSE LET columnName == CHOOSE c \in CompoundColumns(hdr, f) : TRUE
           lookupTaskField == SelectSeq(TaskFields(t), LAMBDA x : x.name = columnName[1])
           tempExtIdTaskField == SelectSeq(TaskFields(t), LAMBDA x : x.name = columnName[2])
           missing(part) ==
             CsvIssue("HIGH", t, Null, Null, Null, "FIELD " \o part \o " IS MISSING IN THE SCRIPT")
           s1 == IF lookupTaskField = <<>>
                 THEN [s EXCEPT !.issues = Append(@, missing(columnName[1]))] ELSE s
           s2 == IF tempExtIdTaskField = <<>>
                 THEN [s1 EXCEPT !.issues = Append(@, missing(columnName[2]))] ELSE s1
           cache == ReadCsvFileWithCache(s.cache, t)
       IN IF lookupTaskField = <<>> \/ tempExtIdTaskField = <<>>
          THEN [s2 EXCEPT !.cache = cache]
          ELSE IF lookupTaskField[1].externalIdTaskField = Undefined
          THEN [s2 EXCEPT !.cache = cache, !.crashed = TRUE]
          ELSE LET lookupField == Column(lookupTaskField[1].name)
                   extIdField == Column(lookupTaskField[1].externalIdTaskField)
                   tempExtIdField == Column(tempExtIdTaskField[1].name)
                   expand(row) ==
                     LET r1 == WithCell(row, lookupField,
                                 IF Falsy(Cell(row, lookupField)) THEN FakeId
                                 ELSE row[lookupField])
                         r2 == WithCell(r1, extIdField, row[columnName])
                         r3 == WithCell(r2, tempExtIdField, row[columnName])
                     IN WithoutCell(r3, columnName)
                   rows == MapGet(cache, t)
               IN [s2 EXCEPT !.cache = MapSet(cache, t, [k \in 1..Len(rows) |-> expand(rows[k])]),
                             !.dirty = @ \cup {t}]

\* app.ts 762-967: the body of the loop over task.taskFields; a TypeError
\* ends the loop
RECURSIVE ProcessFields(_, _, _, _)
ProcessFields(t, hdr, j, s) ==
  IF j > Len(TaskFields(t)) \/ s.crashed THEN s
  ELSE LET f == TaskFields(t)[j]
           s1 == IF f.isOriginalField /\ Column(f.name) \notin hdr
                 THEN [s EXCEPT !.issues = Append(@, CsvIssue("NORMAL", t, f.name, Null, Null,
                           "COLUMN DEFINED IN THE SCRIPT IS MISSING IN THE CSV FILE"))]
                 ELSE s
       IN IF f.isReference /\ ~f.isOriginalField
          THEN ProcessFields(t, hdr, j + 1, AddLookupColumn(t, hdr, f, s1))
          ELSE IF ~f.isReference /\ f.isOriginalField
          THEN ProcessFields(t, hdr, j + 1, ExpandCompoundColumn(t, hdr, f, s1))
          ELSE ProcessFields(t, hdr, j + 1, s1)

\* app.ts 733-760: one iteration of the loop over job.tasks
ProcessTask(t, s) ==
  IF operation[t] = "Delete" THEN s
  ELSE IF Header(files[t]) = {}
  THEN [s EXCEPT !.issues = Append(@, CsvIssue("HIGHEST", t, Null, Null, Null,
                                      "CSV FILE IS EMPTY OR DOES NOT EXIST"))]
  ELSE ProcessFields(t, Header(files[t]), 1, s)

\* the columns a file of the object can have beside Id
PlainColumns(t, rm) ==
  {Column("Name"), Column(FieldTemp)}
    \cup {Column(LookupField(p)) : p \in rm[t]} \cup {Column(ExtIdField(p)) : p \in rm[t]}
CompoundPool(t, rm) ==
  {Compound(LookupField(p), FieldTemp) : p \in rm[t]}
    \cup {Compound(LookupField(p), FieldTemp) \o Column(UnknownField) : p \in rm[t]}
    \cup (IF rm[t] = {} THEN {}
          ELSE {Compound("Name", FieldTemp), Compound(UnknownField, FieldTemp)})
Headers(t, rm) ==
  {{}} \cup {{Column("Id")} \cup H \cup C :
               H \in SUBSET PlainColumns(t, rm),
               C \in {{}} \cup {{c} : c \in CompoundPool(t, rm)}}

\* the rows of a file with the given header: row k carries the k-th
\* identifier and external id; the lookup cell of row 1 is look1
FileRows(hdr, look1) ==
  IF hdr = {} THEN <<>>
  ELSE [k \in 1..MaxRows |->
          [c \in hdr |->
             IF Len(c) >= 2 THEN "cmp"
             ELSE IF c = Column("Id") THEN SrcIds[k]
             ELSE IF c = Column("Name") THEN ExtVals[k]
             ELSE IF c = Column(FieldTemp) THEN "tmp"
             ELSE IF c \in {Column(LookupField(p)) : p \in Range(NamePool)}
             THEN (IF k = 1 THEN look1 ELSE SrcIds[k])
             ELSE ExtVals[k]]]

\* the executor's variables that step 0 does not use
RunIdle ==
  /\ query = <<>>
  /\ deleteOldData = <<>>
  /\ sourceStore = <<>>
  /\ targetStore = <<>>
  /\ step = 0
  /\ ti = 0
  /\ stage = 0
  /\ sourceRecordSet = <<>>
  /\ targetRecordSet = <<>>
  /\ allRecords = <<>>
  /\ extIdMap = <<>>
  /\ missingParentRecords = <<>>
  /\ reportFile = Unwritten
  /\ csvIssues = 0
  /\ updatedRecords = NoRecords
  /\ opLog = <<>>
  /\ writeLog = <<>>
  /\ outstanding = 0
  /\ error = NoError
  /\ declined = FALSE

\* executeJob is called with a file source: a child object, a parent object
\* and their files; validateCSVFilesOnly is one of the given values
InitFilesWith(validateOnly) ==
  /\ pc = "f_start"
  /\ \E objs \in {SubSeq(NamePool, 1, 2)} :
     \E only \in validateOnly :
     \E R \in SUBSET {<<NamePool[1], NamePool[2]>>} :
     \E rm \in {MapOf(Range(objs), R)} :
     \E prompt \in BOOLEAN :
     \E opChild \in {"Upsert", "Delete"} :
     \E opParent \in {"Upsert", "Readonly"} :
     \E hdrChild \in Headers(objs[1], rm) :
     \E hdrParent \in Headers(objs[2], rm) :
     \E look1 \in {SrcIds[1], NoMatch, Empty} :
       /\ objects = objs
       /\ refMap = rm
       /\ mdMap = [t \in Range(objs) |-> {}]
       /\ tasks = PlanJob(objs, rm, [t \in Range(objs) |-> {}])
       /\ updatedTasks = Reverse(PlanJob(objs, rm, [t \in Range(objs) |-> {}]))
       /\ seedK = Len(objs) + 1
       /\ script = [promptOnUpdateError |-> TRUE, promptOnMissingParentObjects |-> prompt,
                    validateCSVFilesOnly |-> only, encryptDataFiles |-> FALSE,
                    sourceMedia |-> "File", targetMedia |-> "Org"]
       /\ operation = (objs[1] :> opChild) @@ (objs[2] :> opParent)
       /\ files = (objs[1] :> FileRows(hdrChild, look1)) @@ (objs[2] :> FileRows(hdrParent, look1))
  /\ corrI = -1
  /\ RunIdle
  /\ csvDataCacheMap = <<>>
  /\ csvFilePathsToUpdate = {}
  /\ csvIssueRows = <<>>
  /\ rewritten = {}
  /\ run = 1
  /\ CompilerIdle

\* the run only validates the files
InitFiles == InitFilesWith({TRUE})

filesFrame == <<objects, refMap, mdMap, tasks, updatedTasks, seedK, corrI, script, operation,
                query, deleteOldData, sourceStore, targetStore, stage, sourceRecordSet,
                targetRecordSet, allRecords, extIdMap, missingParentRecords, reportFile,
                updatedRecords, opLog, writeLog, outstanding>>

\* app.ts 706-731: step 0 is entered and its locals are created
ReconcileBegin ==
  /\ UNCHANGED compilerVars
  /\ pc = "f_start"
  /\ script.sourceMedia = "File" /\ ~script.encryptDataFiles
  /\ pc' = "f_task" /\ step' = 0 /\ ti' = 0
  /\ csvDataCacheMap' = <<>>
  /\ csvFilePathsToUpdate' = {}
  /\ csvIssueRows' = <<>>
  /\ rewritten' = {}
  /\ UNCHANGED <<filesFrame, files, run, csvIssues, error, declined>>

\* app.ts 733-968: one iteration of the loop over job.tasks
ReconcileTask ==
  /\ UNCHANGED compilerVars
  /\ pc = "f_task" /\ ti < N
  /\ \E s \in {ProcessTask(Task(ti), [cache |-> csvDataCacheMap, dirty |-> csvFilePathsToUpdate,
                                      issues |-> csvIssueRows, crashed |-> FALSE])} :
       /\ csvDataCacheMap' = s.cache
       /\ csvFilePathsToUpdate' = s.dirty
       /\ csvIssueRows' = s.issues
       /\ IF s.crashed
          THEN pc' = "failed" /\ error' = "TypeError" /\ ti' = ti
          ELSE pc' = "f_task" /\ error' = error /\ ti' = ti + 1
  /\ UNCHANGED <<filesFrame, files, rewritten, run, step, csvIssues, declined>>

\* app.ts 970-1011: the marked files and the issues file are written
ReconcileWrite ==
  /\ UNCHANGED compilerVars
  /\ pc = "f_task" /\ ti >= N
  /\ rewritten' = {t \in csvFilePathsToUpdate : MapHas(csvDataCacheMap, t)}
  /\ files' = [t \in DOMAIN files |->
                 IF t \in csvFilePathsToUpdate /\ MapHas(csvDataCacheMap, t)
                 THEN WriteCsvFile(MapGet(csvDataCacheMap, t)) ELSE files[t]]
  /\ csvIssues' = Len(csvIssueRows)
  /\ pc' = IF csvIssueRows # <<>> /\ script.promptOnMissingParentObjects
           THEN "f_prompt" ELSE "f_done"
  /\ UNCHANGED <<filesFrame, csvDataCacheMap, csvFilePathsToUpdate, csvIssueRows, run,
                 step, ti, error, declined>>

\* app.ts 993-998
ReconcilePrompt ==
  /\ UNCHANGED compilerVars
  /\ pc = "f_prompt"
  /\ \E yes \in BOOLEAN :
       /\ declined' = ~yes
       /\ IF yes THEN pc' = "f_done" /\ error' = error /\ UNCHANGED <<step, ti>>
          ELSE Decline
  /\ UNCHANGED <<filesFrame, reconcilerVars, csvIssues>>

\* executeJob is called again on the files the first call has left
ReconcileAgain ==
  /\ UNCHANGED compilerVars
  /\ pc = "f_done" /\ run = 1 /\ script.validateCSVFilesOnly
  /\ run' = 2
  /\ pc' = "f_start"
  /\ UNCHANGED <<filesFrame, files, csvDataCacheMap, csvFilePathsToUpdate, csvIssueRows,
                 rewritten, step, ti, csvIssues, error, declined>>

NextFiles ==
  ReconcileBegin \/ ReconcileTask \/ ReconcileWrite \/ ReconcilePrompt \/ ReconcileAgain

SpecFiles == InitFiles /\ [][NextFiles]_vars

\* app.ts 1008-1023: a run that does not only validate goes on to step 1
ReconcileLeave ==
  /\ UNCHANGED compilerVars
  /\ pc = "f_done" /\ ~script.validateCSVFilesOnly
  /\ EnterStep1
  /\ UNCHANGED <<filesFrame, reconcilerVars, csvIssues, declined>>

\* executeJob is called with a file source, to validate the files only or
\* to run the job
InitLeave == InitFilesWith(BOOLEAN)

NextLeave == NextFiles \/ ReconcileLeave

SpecLeave == InitLeave /\ [][NextLeave]_vars

\* ------------------------------------------------------- initApplication
MaxDeclared == 2    \* objects declared in export.json
MaxOrgs == 2        \* store entries (orgs) of export.json

\* the phrase the credentials of export.json were encrypted with
Passphrase == "pw"
Plaintexts == {"src", "tgt", "url", "token"}

\* SimpleCrypto.encrypt / decrypt(...).toString(): a text that is no
\* ciphertext of the password decrypts to the empty string
Encrypt(x) == "enc(" \o x \o ")"
Decrypt(pw, v) ==
  IF pw = Passphrase /\ \E x \in Plaintexts : v = Encrypt(x)
  THEN CHOOSE x \in Plaintexts : v = Encrypt(x)
  ELSE Empty

\* a store entry of the script for a user name: fully encrypted, not
\* encrypted, or with the name encrypted only
ScriptOrg(kind, user) ==
  [name |-> IF kind \in {"encrypted", "nameOnly"} THEN Encrypt(user) ELSE user,
   instanceUrl |-> IF kind = "encrypted" THEN Encrypt("url") ELSE "url",
   accessToken |-> IF kind = "encrypted" THEN Encrypt("token") ELSE "token"]

OrgKinds == {"encrypted", "plain", "nameOnly"}
OrgUsers == <<"src", "tgt", "src">>
OrgLists ==
  {<<>>} \cup UNION {{[i \in 1..n |-> ScriptOrg(k[i], OrgUsers[i])] : k \in [1..n -> OrgKinds]} :
                     n \in 1..MaxOrgs}

\* app.ts 174-184: the forEach over script.orgs, entry by entry
DecryptOrg(pw, org) ==
  IF ~Falsy(Decrypt(pw, org.name))
  THEN [name |-> Decrypt(pw, org.name),
        instanceUrl |-> Decrypt(pw, org.instanceUrl),
        accessToken |-> Decrypt(pw, org.accessToken)]
  ELSE org
DecryptOrgs(pw, os) == [i \in 1..Len(os) |-> DecryptOrg(pw, os[i])]

\* the field metadata both orgs return for a type: <<field, referenced type>>
SecondLookup == "C2__c"
FieldsMap(type) ==
  CASE type = NamePool[1] ->
         <<<<"Id", Null>>, <<"Name", Null>>, <<LookupField(NamePool[2]), NamePool[2]>>,
           <<LookupField(NamePool[3]), NamePool[3]>>, <<SecondLookup, NamePool[3]>>,
           <<"RecordTypeId", RecordType>>>>
    [] type = NamePool[2] ->
         <<<<"Id", Null>>, <<"Name", Null>>, <<LookupField(NamePool[1]), NamePool[1]>>,
           <<LookupField(NamePool[3]), NamePool[3]>>>>
    [] type = RecordType ->
         <<<<"Id", Null>>, <<"Name", Null>>, <<"DeveloperName", Null>>, <<"SobjectType", Null>>>>
    [] OTHER -> <<<<"Id", Null>>, <<"Name", Null>>, <<LookupField(NamePool[1]), NamePool[1]>>>>

HasField(type, f) == \E i \in 1..Len(FieldsMap(type)) : FieldsMap(type)[i][1] = f
ReferencedObjectType(type, f) ==
  FieldsMap(type)[CHOOSE i \in 1..Len(FieldsMap(type)) : FieldsMap(type)[i][1] = f][2]

\* export.json gives the operation of an object as a string, the name of a
\* member of the enum OPERATION; the members themselves are written as their
\* bare names
Str(op) == "'" \o op \o "'"

\* CommonUtils.isString
IsString(v) == \E op \in Operations : v = Str(op)

\* app.ts 271-272: OPERATION[object.operation.toString()]
ToOperation(v) ==
  IF IsString(v) THEN CHOOSE op \in Operations : Str(op) = v ELSE v

\* a delete query that parseQuery rejects
Malformed == "malformed"

\* the predicates of the queries: none, or one of two conditions
Predicates == {Empty, "w1", "w2"}

\* the text of a delete query with the predicate, and the predicate that
\* parseQuery finds in the text
DeleteQueryText(w) == "SELECT Id WHERE " \o w
ParsedWhere(q) == CHOOSE w \in Predicates : DeleteQueryText(w) = q

\* parsedDeleteQuery before it is assigned
NoQuery == [fields |-> <<>>, where |-> Undefined]

\* an object of export.json after plainToClass: where is the predicate of
\* its query
ScriptObject(name, op, ext, q, excl, extra) ==
  [name |-> name, operation |-> op, externalId |-> ext, query |-> q, excluded |-> excl,
   deleteOldData |-> FALSE, isExtraObject |-> extra, described |-> FALSE,
   fieldsMap |-> <<>>, references |-> {}, whereIn |-> {},
   where |-> Empty, deleteQuery |-> Undefined, parsedDeleteQuery |-> NoQuery]

\* the queries of an object of export.json: the selected fields
QueryPool(name) ==
  {<<"Id", "Name">>, <<"Name", LookupField(NamePool[3])>>, <<"Id", UnknownField>>}
  \cup (IF name = NamePool[1]
        THEN {<<"Id", LookupField(NamePool[3]), SecondLookup>>, <<"Id", "RecordTypeId">>,
              <<"Id", LookupField(NamePool[2])>>}
        ELSE {<<"Id", LookupField(NamePool[1])>>})

\* the objects of export.json by name; an excluded object selects Id and Name
DeclaredObjects(name) ==
  {ScriptObject(name, Str(op), ext, q, FALSE, FALSE) :
     op \in {"Upsert", "Readonly", "Delete"}, ext \in {"Name", Undefined}, q \in QueryPool(name)}
  \cup {ScriptObject(name, Str(op), ext, <<"Id", "Name">>, TRUE, FALSE) :
     op \in {"Upsert", "Readonly", "Delete"}, ext \in {"Name", Undefined}}

RECURSIVE Orders(_, _)
Orders(S, n) ==
  IF n = 0 THEN {<<>>}
  ELSE UNION {{<<x>> \o o : o \in Orders(S \ {x}, n - 1)} : x \in S}

\* the object lists of export.json: the first n names of the pool in any
\* order, and the first name alone
RECURSIVE ListsFor(_)
ListsFor(o) ==
  IF o = <<>> THEN {<<>>}
  ELSE {<<x>> \o r : x \in DeclaredObjects(o[1]), r \in ListsFor(Tail(o))}
DeclaredLists(n) ==
  UNION {ListsFor(o) :
         o \in Orders({NamePool[i] : i \in 1..n}, n) \cup {<<NamePool[1]>>}}

DefaultObjects == <<ScriptObject(NamePool[1], Str("Upsert"), "Name", <<"Id", "Name">>, FALSE, FALSE)>>


\* initApplication is called: the arguments and export.json vary with a
\* one-object script, or the objects of the script vary with the
\* connections taken from the SFDX CLI
InitApp ==
  /\ pc = "a_start"
  /\ \/ \E dir \in BOOLEAN, file \in BOOLEAN, su \in {Empty, "src", "file"}, tu \in {Empty, "tgt", "src", "file"},
          pw \in {Empty, Passphrase, "other"}, os \in OrgLists :
          /\ args = [baseDir |-> dir, sourceUsername |-> su, targetUsername |-> tu, password |-> pw]
          /\ exportJson = [exists |-> file, objects |-> DefaultObjects, orgs |-> os]
     \/ \E objs \in DeclaredLists(MaxDeclared) :
          /\ args = [baseDir |-> TRUE, sourceUsername |-> "src", targetUsername |-> "tgt",
                     password |-> Empty]
          /\ exportJson = [exists |-> TRUE, objects |-> objs, orgs |-> <<>>]
  /\ password = Undefined
  /\ scriptDoc = NoScript
  /\ orgs = <<>>
  /\ scriptObjectsList = NoList
  /\ oi = 0
  /\ objects = <<>> /\ refMap = <<>> /\ mdMap = <<>> /\ tasks = <<>> /\ updatedTasks = <<>>
  /\ seedK = 0 /\ corrI = -1
  /\ ExecIdle
  /\ ReconcilerIdle

appFrame == <<objects, refMap, mdMap, tasks, updatedTasks, seedK, corrI,
              script, operation, query, deleteOldData, sourceStore, targetStore, step, ti, stage,
              sourceRecordSet, targetRecordSet, allRecords, extIdMap, missingParentRecords,
              reportFile, csvIssues, updatedRecords, opLog, writeLog, outstanding, declined,
              reconcilerVars, args, exportJson>>

Fail(e) == pc' = "failed" /\ error' = e
Continue(p) == pc' = p /\ error' = error

\* app.ts 111-168: the arguments are checked and export.json is loaded
InitApplicationLoad ==
  /\ pc = "a_start"
  /\ UNCHANGED <<appFrame, orgs, scriptObjectsList, oi>>
  /\ IF Falsy(args.sourceUsername) \/ Falsy(args.targetUsername)
     THEN Fail("PluginInitError") /\ UNCHANGED <<password, scriptDoc>>
     ELSE /\ password' = args.password
          /\ IF ~args.baseDir \/ ~exportJson.exists
             THEN Fail("FileSystemError") /\ UNCHANGED scriptDoc
             ELSE LET kept == SelectSeq(exportJson.objects,
                                        LAMBDA o : ~o.excluded \/ o.operation = "Readonly")
                  IN /\ scriptDoc' = [NoScript EXCEPT
                                        !.loaded = TRUE,
                                        !.objects = kept,
                                        !.orgs = exportJson.orgs,
                                        !.sourceOrg = IF kept = <<>> THEN Empty ELSE args.sourceUsername,
                                        !.targetOrg = IF kept = <<>> THEN Empty ELSE args.targetUsername]
                     /\ IF kept = <<>> THEN Fail("PluginInitError") ELSE Continue("a_decrypt")

\* app.ts 170-188: the credentials of the store entries are decrypted
InitApplicationDecrypt ==
  /\ pc = "a_decrypt"
  /\ UNCHANGED <<appFrame, password, orgs, scriptObjectsList, oi>>
  /\ scriptDoc' = IF ~Falsy(password)
                  THEN [scriptDoc EXCEPT !.orgs = DecryptOrgs(password, scriptDoc.orgs)]
                  ELSE scriptDoc
  /\ Continue("a_connect")

\* List.FirstOrDefault(x => x.name == name) over script.orgs
FirstOrg(os, name) ==
  IF \E i \in 1..Len(os) : os[i].name = name
  THEN os[CHOOSE i \in 1..Len(os) : os[i].name = name /\ \A j \in 1..(i - 1) : os[j].name # name]
  ELSE [name |-> Undefined, instanceUrl |-> Undefined, accessToken |-> Undefined]

\* app.ts 201-218 and 221-238: the handle of one side, from the store entry
\* of the script or from the SFDX CLI, or Undefined when the CLI is not connected
SOrg(entry, user, media, connected) ==
  IF Falsy(entry.name) \/ Falsy(entry.accessToken)
  THEN IF connected THEN [name |-> user, accessToken |-> "cli", media |-> media]
       ELSE [name |-> Undefined, accessToken |-> Undefined, media |-> media]
  ELSE [name |-> entry.name, accessToken |-> entry.accessToken, media |-> media]

\* SOrg.isEquals
IsEquals(a, b) == a.name = b.name /\ a.media = b.media

\* app.ts 190-255: the media types, the two handles and their validation
InitApplicationConnect ==
  /\ pc = "a_connect"
  /\ UNCHANGED <<appFrame, password, scriptObjectsList, oi>>
  /\ \E srcConnected \in BOOLEAN, tgtConnected \in BOOLEAN, srcValid \in BOOLEAN, tgtValid \in BOOLEAN :
       LET srcFile == args.sourceUsername = "file"
           s1 == IF srcFile
                 THEN [scriptDoc EXCEPT !.sourceOrg = scriptDoc.targetOrg, !.sourceMedia = "File"]
                 ELSE scriptDoc
           s2 == IF args.targetUsername = "file"
                 THEN [s1 EXCEPT !.targetOrg = s1.sourceOrg, !.targetMedia = "File"]
                 ELSE s1
           source == SOrg(FirstOrg(s2.orgs, s2.sourceOrg), args.sourceUsername, s2.sourceMedia,
                          srcConnected)
           target == SOrg(FirstOrg(s2.orgs, s2.targetOrg), args.targetUsername, s2.targetMedia,
                          tgtConnected)
       IN /\ scriptDoc' = s2
          /\ IF source.name = Undefined
             THEN Fail("PluginInitError") /\ orgs' = orgs
             ELSE IF target.name = Undefined
             THEN Fail("PluginInitError") /\ orgs' = MapSet(orgs, "source", source)
             ELSE /\ orgs' = MapSet(MapSet(orgs, "source", source), "target", target)
                  /\ IF IsEquals(source, target) \/ ~srcValid \/ ~tgtValid
                     THEN Fail("PluginInitError")
                     ELSE Continue("a_parse")

\* Array.filter(...).length > 0 over the selected fields of the objects
SelectsField(objs, f) == \E i \in 1..Len(objs) : f \in Range(objs[i].query)

\* ParseObject without the change of Upsert to Insert
ParseObjectKeepsUpsert(o) ==
  LET op == ToOperation(o.operation)
      del == op = "Delete"
      old == o.deleteOldData \/ del
  IN [o EXCEPT !.operation = op,
               !.deleteOldData = old,
               !.query = IF del THEN <<"Id">> ELSE o.query,
               !.parsedDeleteQuery =
                  IF ~old \/ o.deleteQuery = Malformed THEN NoQuery
                  ELSE [fields |-> <<"Id">>,
                        where |-> IF ~Falsy(o.deleteQuery) THEN ParsedWhere(o.deleteQuery)
                                  ELSE o.where]]

\* app.ts 269-303: the operation, parseQuery and the delete query of one
\* object; a delete query that does not parse leaves parsedDeleteQuery unset
ParseObject(o) ==
  LET op == ToOperation(o.operation)
      del == op = "Delete"
      old == o.deleteOldData \/ del
  IN [o EXCEPT !.operation = IF old /\ op = "Upsert" THEN "Insert" ELSE op,
               !.deleteOldData = old,
               !.query = IF del THEN <<"Id">> ELSE o.query,
               !.parsedDeleteQuery =
                  IF ~old \/ o.deleteQuery = Malformed THEN NoQuery
                  ELSE [fields |-> <<"Id">>,
                        where |-> IF ~Falsy(o.deleteQuery) THEN ParsedWhere(o.deleteQuery)
                                  ELSE o.where]]

\* app.ts 291-301: parseQuery throws on the delete query of the object
DeleteQueryThrows(o) == ParseObject(o).deleteOldData /\ o.deleteQuery = Malformed

\* app.ts 258-328: the queries are parsed, the objects enter objectsMap,
\* RecordType is added when a query selects RecordTypeId, and the list of
\* the objects is built; the query of object k is malformed (0: none)
InitApplicationParse ==
  /\ pc = "a_parse"
  /\ UNCHANGED <<appFrame, password, orgs, oi>>
  /\ \E k \in 0..Len(scriptDoc.objects), aliased \in BOOLEAN :
       LET given == scriptDoc.objects
           throws == {i \in 1..Len(given) : i = k \/ DeleteQueryThrows(given[i])}
           first == IF throws = {} THEN 0
                    ELSE CHOOSE i \in throws : \A j \in throws : i <= j
           thrown == first # 0
           n == IF ~thrown THEN Len(given)
                ELSE IF first = k THEN k - 1 ELSE first
           parsed == [i \in 1..Len(given) |->
                        IF i <= n THEN ParseObject(given[i])
                        ELSE IF i = first
                        THEN [given[i] EXCEPT !.operation = ToOperation(@)]
                        ELSE given[i]]
           map == [i \in 1..n |-> <<parsed[i].name, i>>]
           rt == ScriptObject(RecordType, "Readonly", "DeveloperName", <<"Id">>, FALSE, TRUE)
           addRt == SelectsField(parsed, "RecordTypeId")
                    /\ \A i \in 1..Len(parsed) : parsed[i].name # RecordType
           objs == IF addRt THEN Append(parsed, rt) ELSE parsed
       IN IF thrown
          THEN /\ scriptDoc' = [scriptDoc EXCEPT !.objects = parsed, !.objectsMap = map]
               /\ scriptObjectsList' = scriptObjectsList
               /\ Fail("PluginInitError")
          ELSE /\ scriptDoc' = [scriptDoc EXCEPT
                                  !.objects = objs,
                                  !.objectsMap = IF addRt THEN MapSet(map, RecordType, Len(objs))
                                                 ELSE map]
               /\ scriptObjectsList' = [aliased |-> aliased,
                                        elements |-> [i \in 1..Len(objs) |-> i]]
               /\ Continue("a_describe")

\* app.ts 337-364: one iteration of the loop that validates the external id
\* and describes the object in both orgs
InitApplicationDescribe ==
  /\ pc = "a_describe"
  /\ UNCHANGED <<appFrame, password, orgs, scriptObjectsList>>
  /\ IF oi >= Len(scriptDoc.objects)
     THEN Continue("a_analyse") /\ oi' = 0 /\ scriptDoc' = scriptDoc
     ELSE LET o == scriptDoc.objects[oi + 1] IN
          IF o.operation \notin {"Insert", "Readonly"} /\ Falsy(o.externalId)
          THEN Fail("MetadataError") /\ oi' = oi /\ scriptDoc' = scriptDoc
          ELSE \E exists \in BOOLEAN :
                 IF ~exists
                 THEN Fail("MetadataError") /\ oi' = oi /\ scriptDoc' = scriptDoc
                 ELSE /\ scriptDoc' = [scriptDoc EXCEPT !.objects[oi + 1].described = TRUE]
                      /\ oi' = oi + 1
                      /\ Continue("a_describe")

\* app.ts 368-379: a Delete object selects its first field that references
\* the other object
RECURSIVE ComposeDelete(_, _, _)
ComposeDelete(objs, i, j) ==
  IF i > Len(objs) THEN objs
  ELSE IF j > Len(objs) THEN ComposeDelete(objs, i + 1, 1)
  ELSE IF objs[i].operation # "Delete" \/ j = i THEN ComposeDelete(objs, i, j + 1)
  ELSE LET fm == FieldsMap(objs[i].name)
           f == SelectSeq(fm, LAMBDA x : x[2] = objs[j].name)
       IN ComposeDelete(IF f # <<>>
                        THEN [objs EXCEPT ![i].query = Append(objs[i].query, f[1][1])]
                        ELSE objs, i, j + 1)

\* app.ts 402-453: Id and the external id field are added to the query of
\* the object, and RecordType selects SobjectType
AnalyseObject(o) ==
  LET q1 == IF "Id" \in Range(o.query) THEN o.query ELSE Append(o.query, "Id")
      q2 == IF o.externalId \in Range(q1) THEN q1 ELSE Append(q1, o.externalId)
  IN IF o.name = RecordType
     THEN [o EXCEPT !.query = IF "SobjectType" \in Range(q2) THEN q2 ELSE Append(q2, "SobjectType"),
                    !.isExtraObject = TRUE, !.operation = "Readonly"]
     ELSE [o EXCEPT !.query = q2]

\* app.ts 366-453: the queries of the Delete objects and the second pass;
\* getComposedField of soql-parser-js, called with the undefined external id
\* of an object, returns a field of that name or throws a TypeError
InitApplicationAnalyse ==
  /\ pc = "a_analyse"
  /\ UNCHANGED <<appFrame, password, orgs, scriptObjectsList>>
  /\ oi' = 0
  /\ \E composes \in BOOLEAN :
       LET composed == ComposeDelete(scriptDoc.objects, 1, 1)
           bad == {i \in 1..Len(composed) : Falsy(composed[i].externalId)}
           n == IF composes \/ bad = {} THEN Len(composed)
                ELSE (CHOOSE i \in bad : \A j \in bad : i <= j) - 1
       IN /\ scriptDoc' = [scriptDoc EXCEPT !.objects =
                             [i \in 1..Len(composed) |->
                                IF i <= n THEN AnalyseObject(composed[i]) ELSE composed[i]]]
          /\ IF n < Len(composed) THEN Fail("TypeError") ELSE Continue("a_fields")

\* List.FirstOrDefault(x => x.name == type) over scriptObjectsList: a list
\* that shares the array of script.objects sees the objects pushed since
\* (0: none)
ListElements(list, objs) ==
  IF list.aliased THEN [i \in 1..Len(objs) |-> i] ELSE list.elements
FirstOrDefault(list, objs, type) ==
  LET es == ListElements(list, objs)
      hits == {i \in 1..Len(es) : objs[es[i]].name = type}
  IN IF hits = {} THEN 0 ELSE es[CHOOSE i \in hits : \A j \in hits : i <= j]

\* app.ts 505-514: the object added for a referenced type the list lacks
Placeholder(type) ==
  [ScriptObject(type, "Readonly", "Name", <<"Id", "Name">>, FALSE, TRUE) EXCEPT !.described = TRUE]

ScriptField(name, type, ext) ==
  [name |-> name, isReference |-> type # Null, referencedSObjectType |-> type, externalId |-> ext]

\* app.ts 463-553: the fields of object i from field j on; s holds
\* script.objects, script.objectsMap and the error thrown, describes tells
\* whether an added object exists in the orgs
RECURSIVE BuildFields(_, _, _, _, _)
BuildFields(s, list, i, j, describes) ==
  LET o == s.objects[i] IN
  IF s.error # NoError \/ j > Len(o.query) THEN s
  ELSE LET name == o.query[j] IN
    IF ~HasField(o.name, name) THEN [s EXCEPT !.error = "MetadataError"]
    ELSE LET type == ReferencedObjectType(o.name, name) IN
      IF type = Null
      THEN BuildFields([s EXCEPT !.objects[i].fieldsMap = MapSet(@, name, ScriptField(name, Null, Undefined))],
                       list, i, j + 1, describes)
      ELSE LET found == FirstOrDefault(list, s.objects, type)
               s1 == IF found # 0 THEN s
                     ELSE [s EXCEPT !.objects = Append(@, Placeholder(type)),
                                    !.objectsMap = MapSet(@, type, Len(s.objects) + 1)]
               r == IF found # 0 THEN found ELSE Len(s1.objects)
           IN IF found = 0 /\ ~describes THEN [s1 EXCEPT !.error = "MetadataError"]
              ELSE IF Falsy(s1.objects[r].externalId) THEN [s1 EXCEPT !.error = "ScriptError"]
              ELSE BuildFields([s1 EXCEPT !.objects[i].fieldsMap =
                                   MapSet(@, name, ScriptField(name, type, s1.objects[r].externalId))],
                               list, i, j + 1, describes)

\* app.ts 455-557: one iteration of the loop that builds the fields of an
\* object and the objects its reference fields need
InitApplicationFields ==
  /\ pc = "a_fields"
  /\ UNCHANGED <<appFrame, password, orgs, scriptObjectsList>>
  /\ IF oi >= Len(scriptDoc.objects)
     THEN Continue("a_finish") /\ oi' = oi /\ scriptDoc' = scriptDoc
     ELSE \E describes \in BOOLEAN :
            LET s == BuildFields([objects |-> scriptDoc.objects, objectsMap |-> scriptDoc.objectsMap,
                                  error |-> NoError], scriptObjectsList, oi + 1, 1, describes)
            IN /\ scriptDoc' = [scriptDoc EXCEPT !.objects = s.objects, !.objectsMap = s.objectsMap]
               /\ IF s.error # NoError
                  THEN Fail(s.error) /\ oi' = oi
                  ELSE Continue("a_fields") /\ oi' = oi + 1

\* ScriptObject.getReferencedSObjectTypes
ReferencedSObjectTypes(o) ==
  {o.fieldsMap[k][2].referencedSObjectType : k \in {x \in 1..Len(o.fieldsMap) : o.fieldsMap[x][2].isReference}}

\* app.ts 559-592: the maps of the referenced fields and objects and the
\* query of RecordType
InitApplicationFinish ==
  /\ pc = "a_finish"
  /\ UNCHANGED <<appFrame, password, orgs, scriptObjectsList, oi>>
  /\ scriptDoc' = [scriptDoc EXCEPT !.objects =
       [i \in 1..Len(scriptDoc.objects) |->
          [scriptDoc.objects[i] EXCEPT
             !.references = ReferencedSObjectTypes(scriptDoc.objects[i]),
             !.whereIn = IF scriptDoc.objects[i].name = RecordType
                         THEN {scriptDoc.objects[k].name : k \in {x \in 1..Len(scriptDoc.objects) :
                                  "RecordTypeId" \in Range(scriptDoc.objects[x].query)}}
                         ELSE {}]]]
  /\ Continue("a_done")

NextApp ==
  \/ InitApplicationLoad
  \/ InitApplicationDecrypt
  \/ InitApplicationConnect
  \/ InitApplicationParse
  \/ InitApplicationDescribe
  \/ InitApplicationAnalyse
  \/ InitApplicationFields
  \/ InitApplicationFinish

SpecApp == InitApp /\ [][NextApp]_vars

\* the objects of export.json whose operation, flags and delete query vary:
\* the operation is a string or already a member of the enum
ParsePool(name) ==
  {[ScriptObject(name, op, "Name", <<"Id", "Name">>, excl, FALSE)
      EXCEPT !.deleteOldData = old, !.deleteQuery = dq, !.where = w] :
     op \in {Str("Insert"), Str("Upsert"), Str("Readonly"), Str("Delete"), "Readonly"},
     excl \in BOOLEAN, old \in BOOLEAN,
     dq \in {Undefined, Empty, Malformed, DeleteQueryText(Empty), DeleteQueryText("w2")},
     w \in {Empty, "w1"}}

\* a second object beside it: upserted, or excluded and Readonly
ParseSecond(name) ==
  {ScriptObject(name, Str("Upsert"), "Name", <<"Id", "Name">>, FALSE, FALSE),
   ScriptObject(name, Str("Readonly"), "Name", <<"Id", "Name">>, TRUE, FALSE),
   ScriptObject(name, "Readonly", "Name", <<"Id", "Name">>, TRUE, FALSE)}

\* initApplication is called on a script of one or two objects
InitParse ==
  /\ pc = "a_start"
  /\ \E objs \in {<<x>> : x \in ParsePool(NamePool[1])}
                 \cup {<<x, y>> : x \in ParsePool(NamePool[1]), y \in ParseSecond(NamePool[2])}
                 \cup {<<y, x>> : x \in ParsePool(NamePool[1]), y \in ParseSecond(NamePool[2])} :
       /\ args = [baseDir |-> TRUE, sourceUsername |-> "src", targetUsername |-> "tgt",
                  password |-> Empty]
       /\ exportJson = [exists |-> TRUE, objects |-> objs, orgs |-> <<>>]
  /\ password = Undefined
  /\ scriptDoc = NoScript
  /\ orgs = <<>>
  /\ scriptObjectsList = NoList
  /\ oi = 0
  /\ objects = <<>> /\ refMap = <<>> /\ mdMap = <<>> /\ tasks = <<>> /\ updatedTasks = <<>>
  /\ seedK = 0 /\ corrI = -1
  /\ ExecIdle
  /\ ReconcilerIdle

SpecParse == InitParse /\ [][NextApp]_vars

\* ------------------------------------------------------------------ claims
Planned == pc = "planned"

\* C1: for an acyclic reference graph (self-references ignored) the final job
\* order places every referenced (parent) object before each object that
\* references it.  Stated for the scripts without master-detail fields and
\* without RecordType, whose order the seed pass alone decides.
C1_TopologicalOrder ==
  (/\ Planned /\ Acyclic(NoSelf(RelOf(Range(objects), refMap)))
   /\ RecordType \notin Range(objects)
   /\ \A a \in Range(objects) : mdMap[a] = {})
    => \A a \in Range(objects) : \A b \in refMap[a] : a # b => Pos(b) < Pos(a)

\* C2: in the final job order every master-detail parent is positioned
\* strictly before its child.  Stated for the scripts without RecordType,
\* which the seed pass places apart from the other objects.
C2_MasterDetailParentFirst ==
  (Planned /\ RecordType \notin Range(objects)) => \A a \in Range(objects) : \A b \in mdMap[a] : a # b => Pos(b) < Pos(a)

\* C3: when the object list contains RecordType, its task is at index 0 of
\* the final job order.
C3_RecordTypeFirst ==
  (Planned /\ RecordType \in Range(objects)) => Pos(RecordType) = 0

\* the calls of processTaskDataAsync issued so far (a file target is written
\* by writeCsvFileAsync instead)
WriteCalls == {i \in 1..Len(writeLog) : writeLog[i].operation # "File"}
TargetIds == Range(TgtIds) \cup Range(NewIds) \cup Range(RtIds)
RowsOf(e) == {e.rows[k] : k \in 1..Len(e.rows)}

\* C4: a self-referencing column is tagged "after": every step-4 write call
\* of its task omits it, the source rows keep the source-side value until
\* step 5, and a step-5 write call that carries it rewritten to a target
\* identifier comes after the task's own step-4 write call has returned.
C4_SelfReferenceAfterOwnWrite ==
  /\ \A i \in WriteCalls :
       LET e == writeLog[i]
           t == e.task
       IN t \in refMap[t] =>
            /\ ~IsParentTaskBefore(t, t)
            /\ e.step = 4 => t \in e.omit /\ \A r \in RowsOf(e) : r.fld[t] = Absent
            /\ e.step = 5 =>
                 /\ t \notin e.omit
                 /\ \A r \in RowsOf(e) : r.fld[t] \in TargetIds \cup {Null, Absent}
                 /\ \E j \in 1..(i - 1) :
                      /\ writeLog[j].step = 4 /\ writeLog[j].task = t
                      /\ writeLog[j].result.defined
  /\ \A t \in DOMAIN sourceRecordSet :
       (t \in refMap[t] /\ step < 5) =>
         \A k \in 1..Len(sourceRecordSet[t]) : sourceRecordSet[t][k].fld[t] = SrcRef

\* a step-5 write call carries a self-referencing column that holds the
\* identifier the task's own step-4 write has produced
C4_Witness ==
  \E i \in WriteCalls :
    /\ writeLog[i].step = 5
    /\ writeLog[i].task \in refMap[writeLog[i].task]
    /\ \E r \in RowsOf(writeLog[i]) : r.fld[writeLog[i].task] \in Range(NewIds)

\* the reference fields a write call of the given step has resolved
ResolvedFields(e) ==
  IF e.step = 4 THEN BeforeParents(e.task) ELSE AfterParents(e.task)

\* the lookup value of the row has no match in the table of the parent
Unmatched(e, r, p) ==
  \/ r.look[p] = Absent
  \/ /\ ~Falsy(r.look[p])
     /\ Falsy(MapGet(extIdMap[p], LookupKey(e.task, p, r.look[p], e.step = 4)))

PresentButEmpty(r, p) == r.look[p] # Absent /\ Falsy(r.look[p])

\* C5 as stated: in every row handed to a write call of step 4 or 5 an
\* unmatched lookup value leaves the reference field absent, and a present
\* but empty lookup column makes it explicit null, for every kind of parent.
C5_NullForEveryParent ==
  \A i \in WriteCalls : \A r \in RowsOf(writeLog[i]) :
    \A p \in ResolvedFields(writeLog[i]) :
      /\ Unmatched(writeLog[i], r, p) => r.fld[p] = Absent
      /\ PresentButEmpty(r, p) => r.fld[p] = Null

\* the identifier of the first cached record type whose type name starts
\* with the name of the child
FirstRecordTypeId(t) ==
  LET rows == targetRecordSet[RecordType]
      ks == {k \in 1..Len(rows) : IsPrefix(t, rows[k].st)}
  IN IF ks = {} THEN Undefined ELSE rows[CHOOSE k \in ks : \A o \in ks : k <= o].Id

\* C5 amended: as C5, except that in step 4 a present but empty lookup
\* column of a RecordType parent sets the reference field to the identifier
\* of the first record type of the child (undefined when there is none).
C5_NullExceptRecordType ==
  \A i \in WriteCalls : \A r \in RowsOf(writeLog[i]) :
    \A p \in ResolvedFields(writeLog[i]) :
      /\ Unmatched(writeLog[i], r, p) => r.fld[p] = Absent
      /\ PresentButEmpty(r, p) =>
           r.fld[p] = IF p = RecordType /\ writeLog[i].step = 4
                      THEN FirstRecordTypeId(writeLog[i].task) ELSE Null

\* one write call carries a row whose unmatched reference is absent and a
\* row whose empty RecordType lookup became a record type identifier
C5_Witness ==
  \E i \in WriteCalls :
    /\ writeLog[i].step = 4
    /\ RecordType \in ResolvedFields(writeLog[i])
    /\ \E r \in RowsOf(writeLog[i]) :
         PresentButEmpty(r, RecordType) /\ r.fld[RecordType] \in Range(RtIds)
    /\ \E r \in RowsOf(writeLog[i]) :
         Unmatched(writeLog[i], r, RecordType) /\ r.fld[RecordType] = Absent

\* C6: when a task B resolves a "before" reference to A in step 4, the table
\* of A maps the external id of every row A's step-4 write has returned to
\* its identifier, and every B row that looks up such a row carries that
\* identifier and has no diagnostic for the field.
C6_ParentTableHoldsWrittenRows ==
  \A i \in WriteCalls :
    writeLog[i].step = 4 =>
      \A p \in BeforeParents(writeLog[i].task) :
        \A j \in WriteCalls :
          (writeLog[j].step = 4 /\ writeLog[j].task = p) =>
            /\ j < i /\ writeLog[j].result.defined
            /\ \A k \in 1..Len(writeLog[j].result.rows) :
                 LET w == writeLog[j].result.rows[k]
                 IN /\ MapGet(extIdMap[p], <<"", w.ext>>) = w.Id
                    /\ \A r \in RowsOf(writeLog[i]) :
                         r.look[p] = w.ext =>
                           /\ r.fld[p] = w.Id
                           /\ \A m \in 1..Len(missingParentRecords) :
                                LET d == missingParentRecords[m][2]
                                IN ~(/\ d.sobject = writeLog[i].task
                                     /\ d.child = r.Id /\ d.parent = p)

\* a row of B carries the identifier of a row of A inserted by this run
C6_Witness ==
  \E i \in WriteCalls : \E p \in BeforeParents(writeLog[i].task) :
    /\ writeLog[i].step = 4
    /\ \E r \in RowsOf(writeLog[i]) : r.fld[p] \in Range(NewIds)

\* C7: when executeJob ends with a run error or a user-aborted error raised
\* in step 4 or 5 while missing-parent diagnostics have been accumulated,
\* the report file holds them.
C7_ReportsFlushedBeforeError ==
  (/\ pc = "failed" /\ step \in {4, 5}
   /\ error \in {"JobError", "JobAbortedByUser"}
   /\ missingParentRecords # <<>>)
    => reportFile = FlushReports(missingParentRecords)

\* C8: after a failed write call of step 4 or 5 and the answer yes to the
\* update-error prompt, executeJob goes on; the only error that can follow
\* the prompt is the user-aborted error of another answer.
C8_AcceptContinues ==
  [][(pc \in {"s4_errprompt", "s5_errprompt"})
        => (error' \in {NoError, "JobAbortedByUser"})]_vars

\* C9: once the user has declined at a prompt, executeJob has terminated
\* with the user-aborted error, and the declining step and every later one
\* issue no store operation.
C9_DeclineStopsOperations ==
  /\ [](declined => pc = "failed" /\ error = "JobAbortedByUser")
  /\ [][declined' => (opLog' = opLog /\ writeLog' = writeLog /\ outstanding' = 0)]_vars

\* the user has declined after store operations had been issued
C9_Witness == declined /\ opLog # <<>> /\ step = 4

\* the loop of the step has finished for all tasks
StepFinished ==
  CASE step = 1 -> ti < 0 \/ script.targetMedia # "Org"
    [] step \in 2..4 -> ti >= N
    [] OTHER -> TRUE

\* C10: the store operations are issued in the order of the steps, within
\* steps 2 to 5 in job order (each operation against the one issued just
\* before it), a step begins only when the previous step has
\* finished for all tasks, and at most one operation is outstanding.
C10_SequentialPipeline ==
  /\ [](/\ outstanding \in {0, 1}
        /\ \A i \in 1..(Len(opLog) - 1) :
             \/ opLog[i][1] < opLog[i + 1][1]
             \/ /\ opLog[i][1] = opLog[i + 1][1]
                /\ opLog[i][1] \in 2..5 => opLog[i][2] <= opLog[i + 1][2])
  /\ [][(step' # step) => (step' = step + 1 /\ StepFinished /\ outstanding' = 0)]_vars

\* a finished run has issued operations in steps 2, 3, 4 and 5 and on two tasks
C10_Witness ==
  /\ pc = "done"
  /\ {2, 3, 4, 5} \subseteq {opLog[i][1] : i \in 1..Len(opLog)}
  /\ \E i, j \in 1..Len(opLog) : opLog[i][1] = opLog[j][1] /\ opLog[i][2] < opLog[j][2]

\* C11: a second run of the reconciliation on the files a first run has left
\* records no diagnostic and rewrites no record file.
C11_SecondRunIsSilent ==
  (run = 2 /\ pc \in {"f_done", "f_prompt"}) => (csvIssueRows = <<>> /\ rewritten = {})

\* the objects of the compiled script that carry the name of a type
ObjectsNamed(type) == {i \in 1..Len(scriptDoc.objects) : scriptDoc.objects[i].name = type}
\* the reference fields of the compiled script: <<object, field>>
ReferenceFields ==
  {<<i, k>> \in (1..Len(scriptDoc.objects)) \X (1..6) :
     /\ k <= Len(scriptDoc.objects[i].fieldsMap)
     /\ scriptDoc.objects[i].fieldsMap[k][2].isReference}
FieldAt(r) == scriptDoc.objects[r[1]].fieldsMap[r[2]][2]
DeclaredNames == {exportJson.objects[i].name : i \in 1..Len(exportJson.objects)}

C13_NothingToDelete ==
  [][(pc = "s1_query" /\ pc' # "failed" /\ Len(DeleteQueryRecords(Task(ti))) = 0) =>
       (/\ pc' = "s1" /\ step' = 1 /\ ti' = ti - 1
        /\ opLog' = opLog /\ outstanding' = 0
        /\ targetStore' = targetStore /\ error' = NoError)]_vars

\* the delete query of a task has returned no row of a target that holds rows
\* of the object, and the loop of step 1 stands at the next task
C13_Witness ==
  /\ pc = "s1" /\ step = 1 /\ outstanding = 0
  /\ opLog # <<>>
  /\ opLog[Len(opLog)] = <<1, ti + 1, "query", "target">>
  /\ targetStore[Task(ti + 1)] # <<>>
  /\ ~deleteOldData[Task(ti + 1)]

\* C14: when the header of a task's file has a compound column whose two
\* segments both name fields of the task, the reconciliation of the task
\* leaves every row with a non-empty lookup cell (the existing value when
\* there was one), with the compound value in the external-id column and in
\* the temp column and without the compound column, and marks the file.
C14_CompoundColumnExpanded ==
  [][(pc = "f_task" /\ ti < N /\ operation[Task(ti)] # "Delete") =>
       \A c \in Header(files[Task(ti)]) :
         (Len(c) = 2 /\ c[1] \in FieldNames(Task(ti)) /\ c[2] \in FieldNames(Task(ti))) =>
           /\ pc' = "f_task"
           /\ Task(ti) \in csvFilePathsToUpdate'
           /\ \A k \in 1..Len(files[Task(ti)]) :
                LET row == MapGet(csvDataCacheMap', Task(ti))[k]
                    old == files[Task(ti)][k]
                IN /\ ~Falsy(Cell(row, Column(c[1])))
                   /\ ~Falsy(Cell(old, Column(c[1]))) => row[Column(c[1])] = old[Column(c[1])]
                   /\ Cell(row, Column(c[2])) = old[c]
                   /\ \A j \in 1..Len(TaskFields(Task(ti))) :
                        LET f == TaskFields(Task(ti))[j]
                        IN (f.name = c[1] /\ f.externalIdTaskField # Undefined) =>
                             Cell(row, Column(f.externalIdTaskField)) = old[c]
                   /\ c \notin DOMAIN row]_vars

\* the object the reference field of a query names, in script.objects (0: none)
ReferencedWithoutExternalId ==
  \E i \in 1..Len(scriptDoc.objects) : \E k \in 1..Len(scriptDoc.objects[i].query) :
    LET o == scriptDoc.objects[i]
        f == o.query[k]
    IN /\ HasField(o.name, f)
       /\ ReferencedObjectType(o.name, f) # Null
       /\ \E j \in ObjectsNamed(ReferencedObjectType(o.name, f)) :
            Falsy(scriptDoc.objects[j].externalId)

\* C15, after a successful initApplication: every reference field has an
\* external id that is not empty and is the external id of the object of
\* objectsMap it references.
C15_EffectiveExternalId ==
  pc = "a_done" =>
    \A r \in ReferenceFields :
      /\ ~Falsy(FieldAt(r).externalId)
      /\ MapHas(scriptDoc.objectsMap, FieldAt(r).referencedSObjectType)
      /\ FieldAt(r).externalId =
           scriptDoc.objects[MapGet(scriptDoc.objectsMap, FieldAt(r).referencedSObjectType)].externalId

\* C15: after a successful initApplication every reference field has the
\* non-empty external id of the object it references, and when a referenced
\* object of the script has no external id the compilation of the fields
\* fails with a ScriptError (the object being compiled selects no field the
\* org lacks and needs no added object, so that nothing else can fail).
C15_ExternalIdOrScriptError ==
  /\ []C15_EffectiveExternalId
  /\ [][(/\ pc = "a_fields" /\ pc' = "failed"
          /\ ReferencedWithoutExternalId
          /\ Len(scriptDoc'.objects) = Len(scriptDoc.objects)
          /\ \A f \in Range(scriptDoc.objects[oi + 1].query) :
               HasField(scriptDoc.objects[oi + 1].name, f) \/ f = scriptDoc.objects[oi + 1].externalId)
         => (error' = "ScriptError")]_vars

\* C16: when initApplication has raised an error the Application holds no
\* partly compiled state: the script with its object list and object map and
\* the store handles are as before the call.
C16_NoPartialState ==
  pc = "failed" => (scriptDoc = NoScript /\ orgs = <<>>)

\* the credentials of a store entry
Credentials(org) == <<org.name, org.instanceUrl, org.accessToken>>

\* C17: the decryption of the credentials with a password leaves either every
\* credential of every store entry decrypted or every credential of every
\* entry as export.json gave it.
C17_DecryptionAllOrNothing ==
  [][(pc = "a_decrypt" /\ ~Falsy(password)) =>
       (\/ scriptDoc'.orgs = scriptDoc.orgs
        \/ \A i \in 1..Len(scriptDoc.orgs) : \A k \in 1..3 :
             Credentials(scriptDoc'.orgs[i])[k] = Decrypt(password, Credentials(scriptDoc.orgs[i])[k]))]_vars

\* C18: a run on a file source that only validates the files issues no
\* operation of the steps 1 to 5, whatever the other flags are, file
\* encryption with a password included.
C18_ValidateOnlyStopsAfterStep0 ==
  (script.sourceMedia = "File" /\ script.validateCSVFilesOnly) =>
    \A i \in 1..Len(opLog) : opLog[i][1] = 0

\* step 2 computes the volume policy of a task that is not added by the
\* compiler, on a live source
RulesApplied(t) ==
  /\ pc = "s2" /\ ti < N /\ t = Task(ti)
  /\ operation[t] # "Delete"
  /\ ~IsExtraObject(t)
  /\ script.sourceMedia = "Org"

Ancestors(t) == {p \in TaskNames : <<t, p>> \in Closure(RelOf(TaskNames, refMap), N)}

\* C20: in step 2 on a live source a task is reference-scoped whenever an
\* object it reaches through a chain of reference fields, however long, has a
\* WHERE or a LIMIT in its query.
C20_AnyAncestorScopes ==
  [][\A t \in TaskNames :
       (RulesApplied(t) /\ \E p \in Ancestors(t) : HasConditions(p)) => (~allRecords'[t])]_vars

\* a row of the task's source records has lost a reference column of ps: its
\* lookup value had no match (app.ts 1602, 1754: delete record[fieldToUpdate])
HasUnmatched(rows, ps) == \E k \in 1..Len(rows) : \E p \in ps : rows[k].fld[p] = Absent

\* the loop of step 4 or 5 has resolved the reference fields of its task
ResolvesHere ==
  /\ pc \in {"s4", "s5"} /\ ti < N /\ script.targetMedia = "Org"
  /\ operation[Task(ti)] \notin {"Readonly", "Delete"}
  /\ HasUnmatched(sourceRecordSet'[Task(ti)],
               IF pc = "s4" THEN BeforeParents(Task(ti)) ELSE AfterParents(Task(ti)))

\* C21: in steps 4 and 5, without the prompt on missing parents, unmatched
\* reference values raise no error and the write call of the task is issued;
\* with the prompt the user is asked, and when the answer is not yes no write
\* call is issued, the report is flushed and the run ends with a user-aborted
\* error.
C21_UnmatchedNonFatal ==
  [][/\ (ResolvesHere /\ ~script.promptOnMissingParentObjects)
        => /\ error' = NoError
           /\ pc' = (IF pc = "s4" THEN "s4_write" ELSE "s5_write")
           /\ Len(writeLog') = Len(writeLog) + 1
           /\ writeLog'[Len(writeLog')].task = Task(ti)
           /\ opLog'[Len(opLog')] = <<step, ti, "write", "target">>
     /\ (ResolvesHere /\ script.promptOnMissingParentObjects)
        => /\ pc' = (IF pc = "s4" THEN "s4_missing" ELSE "s5_missing")
           /\ writeLog' = writeLog /\ opLog' = opLog
     /\ (pc \in {"s4_missing", "s5_missing"} /\ declined')
        => /\ pc' = "failed" /\ error' = "JobAbortedByUser"
           /\ writeLog' = writeLog /\ opLog' = opLog
           /\ reportFile' = FlushReports(missingParentRecords)]_vars

\* the write call of step 5 is outstanding for rows with an unmatched
\* self-reference, in a run that does not prompt on missing parents
C21_Witness ==
  /\ pc = "s5_write" /\ ~script.promptOnMissingParentObjects
  /\ HasUnmatched(sourceRecordSet[Task(ti)], AfterParents(Task(ti)))
  /\ HasUnmatched(sourceRecordSet[Task(ti)], BeforeParents(Task(ti)))
  /\ writeLog[Len(writeLog)].step = 5 /\ writeLog[Len(writeLog)].task = Task(ti)

\* the write calls of a task that carry the reference field to p
WritesOf(t, p) == {i \in 1..Len(writeLog) : writeLog[i].task = t /\ p \notin writeLog[i].omit}

\* C22: when a run on a live target has completed both write passes, every
\* reference field of a task that is neither Readonly nor Delete was in the
\* payload of exactly one write call of the task: one of step 4 when the
\* parent task has a lower index, one of step 5 otherwise.
C22_EachReferenceWrittenOnce ==
  (pc = "done" /\ step = 5 /\ script.targetMedia = "Org")
    => \A t \in TaskNames :
         operation[t] \notin {"Readonly", "Delete"}
           => \A p \in refMap[t] :
                /\ Cardinality(WritesOf(t, p)) = 1
                /\ \A i \in WritesOf(t, p) :
                     writeLog[i].step = IF IsParentTaskBefore(t, p) THEN 4 ELSE 5

\* a completed run in which a task has written one reference field in step 4
\* and another in step 5
C22_Witness ==
  /\ pc = "done" /\ step = 5 /\ script.targetMedia = "Org"
  /\ \E t \in TaskNames :
       /\ operation[t] \notin {"Readonly", "Delete"}
       /\ \E p \in BeforeParents(t), q \in AfterParents(t) :
            /\ \E i \in WritesOf(t, p) : writeLog[i].step = 4
            /\ \E i \in WritesOf(t, q) : writeLog[i].step = 5

\* the columns of the rows of a task: the identifier, the external id, a
\* plain field, and per reference field the field and its lookup column
AllColumns(t) ==
  {"Id", "Name", FieldTemp} \cup refMap[t] \cup {ExtIdField(p) : p \in refMap[t]}

\* C23: every store operation of step 5 is issued on a live target for a task
\* with an "after" or self reference field; every write call of step 5 uses
\* the Update operation and omits every field of the task except the
\* identifier and the "after" and self reference fields.
C23_RestrictedUpdate ==
  /\ \A i \in 1..Len(opLog) :
       opLog[i][1] = 5 =>
         /\ script.targetMedia = "Org"
         /\ opLog[i][3] = "write" /\ opLog[i][4] = "target"
         /\ AfterParents(ElementAt(tasks, opLog[i][2])) # {}
  /\ \A i \in 1..Len(writeLog) :
       writeLog[i].step = 5 =>
         LET e == writeLog[i]
             kept == {"Id"} \cup AfterParents(e.task)
         IN /\ script.targetMedia = "Org"
            /\ AfterParents(e.task) # {}
            /\ e.operation = "Update"
            /\ e.omit \cap kept = {}
            /\ e.omit \cup kept = AllColumns(e.task)

\* a write call of step 5 for a task whose operation is Insert
C23_Witness ==
  \E i \in 1..Len(writeLog) :
    /\ writeLog[i].step = 5
    /\ operation[writeLog[i].task] = "Insert"
    /\ writeLog[i].operation = "Update"
    /\ BeforeParents(writeLog[i].task) # {}

\* the delete queries and the delete operations of step 1 for a task
DeleteQueries(t) == {i \in 1..Len(opLog) : opLog[i] = <<1, Pos(t), "query", "target">>}
DeleteOperations(t) == {i \in 1..Len(opLog) : opLog[i] = <<1, Pos(t), "delete", "target">>}

\* C24: on a live target the flag deleteOldData of a task that is not
\* Readonly is cleared in the very step in which the delete query of the task
\* is issued, no task has two delete queries, and once step 1 is over no task
\* that is not Readonly has the flag set; on a file target no store
\* operation is issued in step 1.
C24_DeleteOldDataOnce ==
  /\ [](\A t \in TaskNames :
         /\ Cardinality(DeleteQueries(t)) <= 1
         /\ (step >= 2 /\ script.targetMedia = "Org" /\ operation[t] # "Readonly")
              => ~deleteOldData[t]
         /\ script.targetMedia # "Org"
              => \A i \in 1..Len(opLog) : opLog[i][1] # 1)
  /\ [][\A t \in TaskNames :
          /\ (deleteOldData[t] /\ ~deleteOldData'[t])
               => /\ operation[t] # "Readonly" /\ script.targetMedia = "Org"
                  /\ opLog' = Append(opLog, <<1, Pos(t), "query", "target">>)
          /\ (Cardinality(DeleteQueries(t)') > Cardinality(DeleteQueries(t)))
               => deleteOldData[t] /\ ~deleteOldData'[t]
          /\ ~deleteOldData[t] => ~deleteOldData'[t]]_vars

\* step 1 is over on a live target: the flagged task has had its one delete
\* query and its delete operation, and a later step has begun
C24_Witness ==
  /\ step >= 2 /\ script.targetMedia = "Org"
  /\ Cardinality(DeleteQueries(NamePool[1])) = 1
  /\ Cardinality(DeleteOperations(NamePool[1])) = 1
  /\ ~deleteOldData[NamePool[1]]

\* C25: a query of step 1, 2 or 3 that fails ends executeJob with a run error
\* and no prompt, whatever the prompt flags are; a failed delete batch of
\* step 1 ends it with a run error when the script does not prompt on update
\* errors, and otherwise the user is asked: an answer other than yes ends it
\* with a user-aborted error, yes goes on with the next task.
C25_QueryErrorsAreRunErrors ==
  [][/\ (pc \in {"s1_query", "s2_query", "s3_query"} /\ pc' = "failed")
        => error' = "JobError" /\ declined' = declined
     /\ (pc \in {"s1_query", "s2_query", "s3_query"})
        => pc' \notin {"s0_prompt", "s1_prompt", "s4_missing", "s5_missing",
                        "s4_errprompt", "s5_errprompt"}
     /\ (pc = "s1_delete" /\ pc' = "failed")
        => ~script.promptOnUpdateError /\ error' = "JobError"
     /\ (pc = "s1_delete" /\ script.promptOnUpdateError)
        => pc' \in {"s1", "s1_prompt"}
     /\ (pc = "s1_prompt" /\ declined') => pc' = "failed" /\ error' = "JobAbortedByUser"
     /\ (pc = "s1_prompt" /\ ~declined') => pc' = "s1" /\ ti' = ti - 1 /\ error' = NoError]_vars

\* C26: each step of the seed pass that inserts the task of an object other
\* than RecordType puts it before every task already in the list whose object
\* references it, and leaves the tasks already in the list in their order.
C26_SeedBeforeDependants ==
  [][(pc = "seed" /\ seedK <= Len(objects) /\ objects[seedK] # RecordType)
       => LET new == objects[seedK]
          IN /\ new \in Range(tasks')
             /\ Remove(tasks', new) = tasks
             /\ \A t \in Range(tasks) :
                  new \in refMap[t] => IndexOf(tasks', new) < IndexOf(tasks', t)]_vars

\* the seed pass has just inserted a task between a task that does not
\* reference it and one that does
C26_Witness ==
  /\ pc = "seed" /\ seedK = 4 /\ Len(tasks) = 3
  /\ tasks[2] = objects[3] /\ objects[3] # RecordType
  /\ objects[3] \in refMap[tasks[3]]
  /\ objects[3] \notin refMap[tasks[1]]

\* C27: when a run has completed and written the missing-parent report, the
\* report holds a row for every source row and every reference field whose
\* lookup value was unmatched in a write call of step 4 or 5.
C27_EveryUnmatchedReported ==
  (pc = "done" /\ step = 5 /\ reportFile.written)
    => \A i \in WriteCalls : \A r \in RowsOf(writeLog[i]) :
         \A p \in ResolvedFields(writeLog[i]) :
           r.fld[p] = Absent
             => \E k \in 1..Len(reportFile.rows) :
                  /\ reportFile.rows[k].child = r.Id
                  /\ reportFile.rows[k].sobject = writeLog[i].task
                  /\ reportFile.rows[k].parent = p

\* C28: the target record set of a task whose operation is Insert is empty
\* from step 2 on until step 4 starts, whether the task is retrieved in full
\* or by reference and whether the source is an org or a file.
C28_InsertHasNoTargetRows ==
  \A t \in TaskNames :
    (operation[t] = "Insert" /\ (step \in {2, 3} \/ (step = 4 /\ pc = "s4" /\ ti = 0)))
      => targetRecordSet[t] = <<>>

\* step 4 starts for an Insert task that was retrieved by reference and whose
\* object has rows in the target
C28_Witness ==
  /\ step = 4 /\ pc = "s4" /\ ti = 0
  /\ \E t \in TaskNames :
       /\ operation[t] = "Insert" /\ ~allRecords[t] /\ script.sourceMedia = "Org"
       /\ targetStore[t] # <<>> /\ sourceRecordSet[t] # <<>>
       /\ targetRecordSet[t] = <<>>

\* the derived lookup columns of a task: one for every reference field
DerivedFields(t) ==
  {f \in Range(TaskFields(t)) : f.isReference /\ ~f.isOriginalField}

\* C30: when step 0 has run over the files, every row of the file of a task
\* that is not deleted has every derived lookup column of the task defined,
\* whatever the operation of the parent object is, provided the files of the
\* task and of the parent have rows.
C30_DerivedColumnDefined ==
  (pc \in {"f_prompt", "f_done"} /\ run = 1)
    => \A t \in Range(objects) : \A f \in DerivedFields(t) :
         (operation[t] # "Delete" /\ files[t] # <<>> /\ files[f.parent] # <<>>)
           => \A k \in 1..Len(files[t]) : Column(f.name) \in DOMAIN files[t][k]

\* no two rows of the list have the same identifier
DistinctIds(rows) ==
  \A i, j \in 1..Len(rows) : rows[i].Id = rows[j].Id => i = j

\* the step merges the rows of a write call of step 4 into the cached target
\* rows of a task that has reference fields
Merges4 ==
  /\ step = 4 /\ pc \in {"s4_write", "s4_errprompt"}
  /\ pc' = "s4" /\ ti' = ti + 1
  /\ refMap[Task(ti)] # {}

\* C29: in the merge of step 4 of a task with reference fields, the cached
\* target rows whose identifier is not in the write result are unchanged; the
\* cached rows whose identifier is in it keep their place, their identifier
\* and the values of the omitted columns; every written row whose identifier
\* was not cached is in the cache exactly once; and the cache has no two rows
\* with one identifier when the write result has none.
C29_MergeKeepsFrame ==
  [][Merges4 =>
       LET t == Task(ti)
           old == targetRecordSet[t]
           new == targetRecordSet'[t]
           result == updatedRecords'.rows
           omit == writeLog[Len(writeLog)].omit
       IN /\ Len(new) >= Len(old)
          /\ \A k \in 1..Len(old) :
                IF old[k].Id \notin Ids(result) THEN new[k] = old[k]
                ELSE /\ new[k].Id = old[k].Id
                     /\ \A p \in DOMAIN old[k].fld :
                          /\ p \in omit => new[k].fld[p] = old[k].fld[p]
                          /\ ExtIdField(p) \in omit => new[k].look[p] = old[k].look[p]
          /\ DistinctIds(result) =>
                /\ \A i \in 1..Len(result) :
                     result[i].Id \notin Ids(old) =>
                       Cardinality({k \in 1..Len(new) : new[k] = result[i]}) = 1
                /\ DistinctIds(new)]_vars

\* the write call of step 4 of a task with reference fields has been merged:
\* a cached row was written and keeps an omitted column that differs from the
\* written value, another cached row was not written, and a written row was
\* new to the cache
C29_Witness ==
  /\ step = 4 /\ pc = "s4" /\ ti >= 1 /\ updatedRecords.defined
  /\ writeLog # <<>>
  /\ LET t == Task(ti - 1)
         e == writeLog[Len(writeLog)]
         rows == targetRecordSet[t]
         result == updatedRecords.rows
     IN /\ refMap[t] # {} /\ e.task = t /\ e.step = 4 /\ e.result = updatedRecords
        /\ DistinctIds(result)
        /\ \E k \in 1..Len(rows) : \E p \in e.omit \cap DOMAIN rows[k].fld :
             /\ rows[k].Id \in Ids(result)
             /\ rows[k] # result[LastIndex(result, rows[k].Id)]
             /\ rows[k].fld[p] # result[LastIndex(result, rows[k].Id)].fld[p]
        /\ \E k \in 1..Len(rows) : rows[k].Id \notin Ids(result)
        /\ \E i \in 1..Len(result) : \E k \in 1..Len(rows) :
             rows[k] = result[i] /\ result[i].Id \in Range(NewIds)

\* the files marked for an update and the issues file hold what step 0 has
\* computed
Step0Written ==
  /\ rewritten = csvFilePathsToUpdate
  /\ \A t \in csvFilePathsToUpdate : files[t] = WriteCsvFile(MapGet(csvDataCacheMap, t))
  /\ csvIssues = Len(csvIssueRows)

\* C31: the issues that step 0 records stop the run only by a declined
\* prompt.  When the loop over the tasks has ended and the script does not
\* prompt, or no issue was recorded, the run leaves step 0 without an error,
\* and goes on to step 1 unless it only validates; otherwise the user is asked,
\* once and only after the marked files and the issues file were written; a
\* decline ends the run with JobAbortedByUser, an accept leaves step 0.
C31_IssuesBlockOnlyOnDecline ==
  /\ [][(pc = "f_task" /\ ti >= N) =>
          IF script.promptOnMissingParentObjects /\ csvIssueRows # <<>>
          THEN pc' = "f_prompt" /\ error' = NoError
          ELSE pc' = "f_done" /\ error' = NoError]_vars
  /\ [][pc' = "f_prompt" => pc = "f_task"]_vars
  /\ [][pc = "f_prompt" =>
          IF declined' THEN pc' = "failed" /\ error' = "JobAbortedByUser"
          ELSE pc' = "f_done" /\ error' = NoError]_vars
  /\ [][(pc = "f_done" /\ ~script.validateCSVFilesOnly) =>
          pc' = "s1" /\ step' = 1 /\ error' = NoError]_vars
  /\ [](pc = "f_prompt" => Step0Written /\ csvIssueRows # <<>>)
  /\ [](declined => /\ pc = "failed" /\ error = "JobAbortedByUser"
                    /\ script.promptOnMissingParentObjects
                    /\ Step0Written)
  /\ [](error = "JobAbortedByUser" => declined)

\* the user has declined after step 0 had rewritten a file and written the
\* issues
C31_Witness ==
  /\ pc = "failed" /\ error = "JobAbortedByUser" /\ declined
  /\ rewritten # {} /\ csvIssues > 0 /\ Step0Written

\* the first two segments of a column name fields of the task
NamesFields(t, c) == c[1] \in FieldNames(t) /\ c[2] \in FieldNames(t)

\* C32: when step 0 has gone over a task whose header has a compound column
\* that does not have exactly two segments, or whose segments do not both
\* name fields of the task, a diagnostic of the task is recorded and the
\* column is skipped: every row of the file still has it.
C32_MalformedCompoundSkipped ==
  [][(pc = "f_task" /\ ti < N /\ pc' = "f_task" /\ operation[Task(ti)] # "Delete") =>
       LET t == Task(ti)
       IN \A c \in Header(files[t]) :
            (Len(c) > 2 \/ (Len(c) = 2 /\ ~NamesFields(t, c))) =>
              /\ \E i \in 1..Len(csvIssueRows') :
                   /\ csvIssueRows'[i].sobject = t /\ csvIssueRows'[i].severity = "HIGH"
                   /\ csvIssueRows'[i].field = Null /\ csvIssueRows'[i].parent = Null
              /\ MapHas(csvDataCacheMap', t) =>
                   \A k \in 1..Len(MapGet(csvDataCacheMap', t)) :
                     c \in DOMAIN MapGet(csvDataCacheMap', t)[k]]_vars

\* the objects of export.json that are not excluded, and the excluded ones
\* whose operation is Readonly, in the order of the script
NotExcluded ==
  SelectSeq(exportJson.objects,
            LAMBDA o : ~o.excluded \/ ToOperation(o.operation) = "Readonly")

\* C33: after the exclusion filter of initApplication the objects of the
\* script are those that are not excluded and the excluded ones whose
\* operation is Readonly, in the order of the script; when there is none,
\* initApplication has failed with PluginInitError and no org was connected.
C33_ExcludedExceptReadonly ==
  (scriptDoc.loaded /\ pc \in {"a_decrypt", "a_connect", "a_parse", "failed"}
     /\ scriptDoc.objectsMap = <<>>)
    => /\ Len(scriptDoc.objects) = Len(NotExcluded)
       /\ \A i \in 1..Len(NotExcluded) : scriptDoc.objects[i].name = NotExcluded[i].name
       /\ NotExcluded = <<>> => pc = "failed" /\ error = "PluginInitError" /\ orgs = <<>>

\* the queries of the script were parsed
QueriesParsed == pc \in {"a_describe", "a_analyse", "a_fields", "a_finish", "a_done"}

\* the object of export.json with the name
Declared(name) ==
  exportJson.objects[CHOOSE i \in 1..Len(exportJson.objects) :
                       exportJson.objects[i].name = name]

\* C34: once initApplication has parsed the queries, every object whose
\* operation is Delete is flagged deleteOldData, no flagged object is
\* upserted, and every flagged object has a parsed delete query that selects
\* Id only, with the predicate of its delete query when export.json gives
\* one and the predicate of its query otherwise.
C34_DeleteQueryParsed ==
  QueriesParsed =>
    \A i \in 1..Len(scriptDoc.objects) :
      LET o == scriptDoc.objects[i] IN
      /\ o.operation = "Delete" => o.deleteOldData
      /\ ~(o.deleteOldData /\ o.operation = "Upsert")
      /\ o.operation \in Operations
      /\ o.deleteOldData =>
           /\ o.parsedDeleteQuery.fields = <<"Id">>
           /\ o.parsedDeleteQuery.where =
                IF Declared(o.name).deleteQuery \in {DeleteQueryText(w) : w \in Predicates}
                THEN ParsedWhere(Declared(o.name).deleteQuery)
                ELSE Declared(o.name).where

\* the queries were parsed for an object that export.json flags
\* deleteOldData and upserts, with a delete query: it is now inserted and
\* its parsed delete query has the predicate of the delete query, not of
\* the main query
C34_Witness ==
  /\ QueriesParsed
  /\ \E i \in 1..Len(scriptDoc.objects) :
       LET o == scriptDoc.objects[i] IN
       /\ o.deleteOldData /\ o.operation = "Insert"
       /\ Declared(o.name).operation = Str("Upsert")
       /\ Declared(o.name).where = "w1"
       /\ o.parsedDeleteQuery = [fields |-> <<"Id">>, where |-> "w2"]

\* the list holds every object of the script, each once
IsPermutation(ts) ==
  /\ Len(ts) = Len(objects)
  /\ \A k \in 1..Len(objects) :
       Cardinality({i \in 1..Len(ts) : ts[i] = objects[k]}) = 1

\* C35: the job that initJob leaves has exactly one task for every object of
\* the compiled list, none lost and none twice; while the correction pass
\* runs, every task is in job.tasks or in updatedTasks, and in neither twice.
C35_JobIsPermutation ==
  /\ pc = "planned" => IsPermutation(tasks)
  /\ pc = "correct" =>
       /\ Range(tasks) \cup Range(updatedTasks) = Range(objects)
       /\ \A i, j \in 1..Len(tasks) : tasks[i] = tasks[j] => i = j
       /\ \A i, j \in 1..Len(updatedTasks) : updatedTasks[i] = updatedTasks[j] => i = j
       /\ corrI < 0 => IsPermutation(updatedTasks)

\* initJob has ended for three objects, and the correction pass has moved a
\* task: the job is not in the order the seed pass left
C35_Witness ==
  /\ pc = "planned" /\ Len(objects) = 3
  /\ Len(tasks) = 3
  /\ tasks # SeedAll(<<>>, objects, 1, refMap)

\* the tasks whose operation is Readonly
ReadonlyTasks == {t \in TaskNames : operation[t] = "Readonly"}

\* C36: on a live target no store operation of step 1, 4 or 5 and no write
\* call is issued for a Readonly task, flagged deleteOldData or not; the rows
\* the target holds of it and its flag stay as they are.
C36_ReadonlyUntouched ==
  /\ [](script.targetMedia = "Org" =>
         /\ \A i \in 1..Len(opLog) :
              opLog[i][1] \in {1, 4, 5} => Task(opLog[i][2]) \notin ReadonlyTasks
         /\ \A i \in 1..Len(writeLog) : writeLog[i].task \notin ReadonlyTasks)
  /\ [][script.targetMedia = "Org" =>
          \A t \in ReadonlyTasks :
            /\ targetStore'[t] = targetStore[t]
            /\ deleteOldData'[t] = deleteOldData[t]]_vars

\* the job has ended on a live target: the Readonly task flagged
\* deleteOldData has rows in both stores and is still flagged, and rows of
\* other tasks have been written
C36_Witness ==
  /\ pc = "done" /\ script.targetMedia = "Org"
  /\ NamePool[1] \in ReadonlyTasks
  /\ deleteOldData[NamePool[1]]
  /\ targetStore[NamePool[1]] # <<>>
  /\ sourceStore[NamePool[1]] # <<>>
  /\ Len(writeLog) > 0

\* the tasks whose operation is Delete
DeleteTasks == {t \in TaskNames : operation[t] = "Delete"}

\* C37: no store operation of the steps 2 to 5 and no write call is issued
\* for a Delete task, whether the target is an org or a file.
C37_DeleteOnlyInStep1 ==
  /\ \A i \in 1..Len(opLog) :
       opLog[i][1] \in 2..5 => Task(opLog[i][2]) \notin DeleteTasks
  /\ \A i \in 1..Len(writeLog) : writeLog[i].task \notin DeleteTasks

\* the task still awaits its visit by the loop of step 1, which will delete
\* its old rows
AwaitsDelete(t) == step <= 1 /\ deleteOldData[t] /\ operation[t] # "Readonly"

\* C38: when no object references itself through others, on a live target
\* no delete operation of step 1 is issued for a parent task while a task
\* that references it and is flagged deleteOldData still awaits its own
\* visit by step 1.
C38_ChildDeletedFirst ==
  (script.targetMedia = "Org" /\ Acyclic(NoSelf(RelOf(TaskNames, refMap)))) =>
    \A c \in TaskNames : \A p \in refMap[c] \ {c} :
      AwaitsDelete(c) => DeleteOperations(p) = {}

====
